---- MODULE Spec2Model ----
(***************************************************************************)
(* Model of the opencubes renderer start-up and frame logic.               *)
(*                                                                         *)
(* Part 1: the Device Selector, in its two revisions:                      *)
(*   - utils::pick_most_suitable_physical_device   (src/renderer/utils.rs) *)
(*   - PhysicalDevice::pick / PhysicalDevice::rate                         *)
(*                                       (src/renderer/physical_device.rs) *)
(* Both are run over the same adapter list, which the Vulkan driver        *)
(* reports (enumerate_physical_devices).                                   *)
(*                                                                         *)
(* Part 2: the Frame Driver (Renderer::draw_frame), called from main.rs.   *)
(*                                                                         *)
(* Part 3: the Presentation Chain Builder, in its two revisions:           *)
(*   - SwapChain::new / create_framebuffers    (src/renderer/swapchain.rs) *)
(*   - Renderer::create_swap_chain with the SwapChainSupportDetails of     *)
(*     utils.rs                  (src/renderer/mod.rs, src/renderer/utils.rs) *)
(*                                                                         *)
(* Part 4: the end of the event loop (main.rs) and the teardown            *)
(* (impl Drop for Renderer, impl Drop for SwapChain).                      *)
(*                                                                         *)
(* Part 5: the life of the Vulkan objects: the constructors of the         *)
(* wrappers (instance.rs, device.rs, swapchain.rs, pipeline_graphics.rs,   *)
(* shader_module.rs, command_pool.rs), their impl Drop, the pipeline       *)
(* builder of mod.rs, and what happens when a driver call fails.           *)
(***************************************************************************)
EXTENDS Integers, Sequences, FiniteSets, TLC

VARIABLES
    physical_devices,     \* the adapter list the driver enumerates
    optional_extensions,  \* utils.rs: optional_extensions parameter
    ratings,              \* utils.rs: ratings parameter
    utils_run,            \* outcome of utils::pick_most_suitable_physical_device
    pick_run,             \* outcome of PhysicalDevice::pick
    pc,                   \* Frame Driver: the step draw_frame executes next
    frame_state,          \* Frame Driver: Idle, Acquiring, Recording, Submitted, Presenting
    steps,                \* the steps done so far in the current draw_frame call
    visited,              \* the Frame Driver states passed in the current call
    frames,               \* number of draw_frame calls that returned
    in_flight_fence,      \* TRUE when the fence is signaled
    image_available,      \* TRUE when the image-available semaphore is signaled
    render_finished,      \* TRUE when the render-finished semaphore is signaled
    image_index,          \* the image acquired in the current call, -1 before
    command_buffer,       \* the single command buffer: status and target image
    images,               \* the swapchain images, as the presentation engine sees them
    gpu,                  \* graphics queue: submissions the GPU has not completed
    present_queue,        \* presentation queue: present requests not yet executed
    snapshot,             \* what the chain is built from: surface capabilities, format
                          \* and present-mode lists, window size, queue family indices
    swap_chain,           \* the SwapChain of swapchain.rs (state "none" before new)
    create_swap_chain_run,\* outcome of Renderer::create_swap_chain (mod.rs)
    format_calls,         \* the results of the choose_format calls made so far
    event_loop,           \* main.rs: where the event loop and the teardown stand
    device_idle,          \* TRUE once the device has been waited on until idle
    destroyed,            \* the objects destroyed so far, in the order of destruction
    failing_call,         \* the driver call that returns an error in this run, if any
    owned,                \* the wrappers that exist, in the order of their construction
    trace,                \* the driver calls on objects made so far: create, fail, destroy
    life,                 \* starting, running, unwinding, aborted or ended
    instance_version,     \* what try_enumerate_instance_version returns
    instance,             \* outcome of Instance::new
    device,               \* outcome of Device::new
    create_logical_device_run,   \* outcome of Renderer::create_logical_device (mod.rs)
    create_graphics_pipeline_run,\* outcome of Renderer::create_graphics_pipeline (mod.rs)
    graphics_pipeline,    \* outcome of GraphicsPipeline::new
    command_pool,         \* outcome of CommandPool::new and CommandPool::allocate
    loop_calls            \* main.rs: events delivered to the closure and the calls it made

selector_vars == <<physical_devices, optional_extensions, ratings, utils_run, pick_run>>

frame_vars == <<pc, frame_state, steps, visited, frames, in_flight_fence, image_available,
                render_finished, image_index, command_buffer, images, gpu, present_queue>>

chain_vars == <<snapshot, swap_chain, create_swap_chain_run, format_calls>>

teardown_vars == <<event_loop, device_idle, destroyed>>

life_objects == <<instance_version, instance, device, create_logical_device_run,
                  create_graphics_pipeline_run, graphics_pipeline, command_pool>>

life_vars == <<failing_call, owned, trace, life, life_objects>>

vars == <<selector_vars, frame_vars, chain_vars, teardown_vars, life_vars, loop_calls>>

outside_selector == <<frame_vars, chain_vars, teardown_vars, life_vars, loop_calls>>
outside_frame == <<selector_vars, chain_vars, teardown_vars, life_vars, loop_calls>>
outside_chain == <<selector_vars, frame_vars, teardown_vars, life_vars, loop_calls>>
outside_life == <<selector_vars, frame_vars, chain_vars, teardown_vars, loop_calls>>

(***************************************************************************)
(* Bounds of the model.                                                    *)
(***************************************************************************)
MaxAdapters == 2
MaxFrames == 3
NumImages == 2
MaxExtent == 3
MaxImageCount == 3
MaxExtraImages == 1
MaxListLen == 2
MaxCalls == 2

(***************************************************************************)
(* Rust Option<T>: None is the empty sequence, Some(x) the sequence <<x>>. *)
(***************************************************************************)
None == <<>>
Some(x) == <<x>>
is_some(o) == Len(o) = 1
is_none(o) == Len(o) = 0
unwrap(o) == o[1]

contains(vec, x) == \E i \in 1..Len(vec) : vec[i] = x

(***************************************************************************)
(* Vulkan packed versions (ash::vk::make_api_version), as used by          *)
(* ApiVersion::u32_patchless.                                              *)
(*                                                                         *)
(* A u32 is written as the 32-bit two's-complement integer with the same   *)
(* bits: the values up to 2^31 - 1 are themselves, a value v with bit 31   *)
(* set is v - 2^32 (u32::MAX is -1).                                       *)
(***************************************************************************)
RECURSIVE bit_or(_, _)
\* The operator | of two non-negative integers.
bit_or(a, b) ==
    IF a = 0 THEN b
    ELSE IF b = 0 THEN a
    ELSE 2 * bit_or(a \div 2, b \div 2) + (IF a % 2 = 1 \/ b % 2 = 1 THEN 1 ELSE 0)

\* x << n in 32 bits, n <= 29: the bits that land in positions 0..28, and the
\* three that land in positions 29..31; the bits shifted past 31 are lost.
shl_low(x, n) == (x % (2^(29 - n))) * (2^n)
shl_high(x, n) == (x \div (2^(29 - n))) % 8

\* The operator < of two u32.
u32_lt(a, b) ==
    IF (a < 0) = (b < 0) THEN a < b ELSE b < 0

\* ash::vk::make_api_version:
\* (variant << 29) | (major << 22) | (minor << 12) | patch
make_api_version(variant, major, minor, patch) ==
    LET low == bit_or(bit_or(shl_low(variant, 29), shl_low(major, 22)),
                      bit_or(shl_low(minor, 12), shl_low(patch, 0)))
        high == bit_or(bit_or(shl_high(variant, 29), shl_high(major, 22)),
                       bit_or(shl_high(minor, 12), shl_high(patch, 0)))
    IN  low + (IF high >= 4 THEN high - 8 ELSE high) * (2^29)

INSTANCE_API_VERSION == [variant |-> 0, major |-> 1, minor |-> 2, patch |-> 0]

u32_patchless(v) == make_api_version(v.variant, v.major, v.minor, 0)

\* ash::vk::api_version_variant, _major, _minor, _patch: the bit fields of a
\* packed version (3, 7, 10 and 12 bits).
api_version_variant(version) == (version \div (2^29)) % (2^3)
api_version_major(version) == (version \div (2^22)) % (2^7)
api_version_minor(version) == (version \div (2^12)) % (2^10)
api_version_patch(version) == version % (2^12)

\* Rust casts `as u8` and `as u16` of a u32: the low 8 and 16 bits.
as_u8(x) == x % (2^8)
as_u16(x) == x % (2^16)

\* apiversion.rs: ApiVersion::new
ApiVersion(variant, major, minor, patch) ==
    [variant |-> variant, major |-> major, minor |-> minor, patch |-> patch]

\* apiversion.rs: impl From<u32> for ApiVersion
from_u32(version) ==
    ApiVersion(as_u8(api_version_variant(version)),
               as_u8(api_version_major(version)),
               as_u8(api_version_minor(version)),
               as_u16(api_version_patch(version)))

\* apiversion.rs: impl From<ApiVersion> for u32 (and ApiVersion::u32)
u32_from(version) ==
    make_api_version(version.variant, version.major, version.minor, version.patch)

\* apiversion.rs: impl Ord for ApiVersion, cmp: major, then minor, then
\* patch; the variant is not looked at.
cmp(self, other) ==
    IF self.major > other.major THEN "Greater"
    ELSE IF self.major < other.major THEN "Less"
    ELSE IF self.minor > other.minor THEN "Greater"
    ELSE IF self.minor < other.minor THEN "Less"
    ELSE IF self.patch > other.patch THEN "Greater"
    ELSE IF self.patch < other.patch THEN "Less"
    ELSE "Equal"

\* apiversion.rs: #[derive(PartialOrd)]: the lexicographic order of the
\* fields in the order of their declaration: variant, major, minor, patch.
partial_cmp(self, other) ==
    IF self.variant < other.variant THEN Some("Less")
    ELSE IF self.variant > other.variant THEN Some("Greater")
    ELSE IF self.major < other.major THEN Some("Less")
    ELSE IF self.major > other.major THEN Some("Greater")
    ELSE IF self.minor < other.minor THEN Some("Less")
    ELSE IF self.minor > other.minor THEN Some("Greater")
    ELSE IF self.patch < other.patch THEN Some("Less")
    ELSE IF self.patch > other.patch THEN Some("Greater")
    ELSE Some("Equal")

\* apiversion.rs: #[derive(PartialEq)]: every field equal.
eq(self, other) ==
    /\ self.variant = other.variant
    /\ self.major = other.major
    /\ self.minor = other.minor
    /\ self.patch = other.patch

\* The operator < of Rust, PartialOrd::lt: partial_cmp gives Some(Less).
lt(self, other) == partial_cmp(self, other) = Some("Less")

(***************************************************************************)
(* Driver calls on objects.  An object is a kind and a number; the trace   *)
(* records each creation, each failed creation and each destruction.  At   *)
(* most one driver call fails in a run: failing_call names it by the       *)
(* driver function and by how many calls of that function came before.     *)
(***************************************************************************)
Obj(kind, id) == [kind |-> kind, id |-> id]
Create(kind, id) == [op |-> "create", object |-> Obj(kind, id)]
Fail(kind, id) == [op |-> "fail", object |-> Obj(kind, id)]
Destroy(kind, id) == [op |-> "destroy", object |-> Obj(kind, id)]

NoFailure == [call |-> "none", nth |-> 0]
Fails(call, nth) == failing_call = [call |-> call, nth |-> nth]

\* A run of creation calls of one kind, numbered from..to: the events up to
\* and including the first call that fails.
CreateAll(call, kind, from, to) ==
    LET bad == {k \in from..to : Fails(call, k)}
        last == IF bad = {} THEN to ELSE (CHOOSE k \in bad : \A j \in bad : k <= j) - 1
    IN  [ok |-> bad = {},
         events |-> [i \in 1..(last - from + 1) |-> Create(kind, from + i - 1)]
                    \o (IF bad = {} THEN <<>> ELSE <<Fail(kind, last + 1)>>)]

\* A panic: the failed call is recorded, and the program either unwinds
\* (dropping what the running functions own) or aborts at once, as the
\* panic strategy of the build says.
PanicStrategies == {"unwinding", "aborted"}

(***************************************************************************)
(* Configuration tables.                                                   *)
(***************************************************************************)
VK_KHR_SWAPCHAIN == "VK_KHR_swapchain"

\* constants.rs (new revision)
PHYSICAL_DEVICE_REQUIRED_EXTENSION_NAMES == <<VK_KHR_SWAPCHAIN>>
PHYSICAL_DEVICE_OPTIONAL_EXTENSION_NAMES == <<>>
PHYSICAL_DEVICE_REQUIRED_LAYER_NAMES == <<>>
PHYSICAL_DEVICE_OPTIONAL_LAYER_NAMES == <<>>

\* mod.rs (old revision): the required list handed to utils.rs
REQUIRED_DEVICE_EXTENSIONS == <<VK_KHR_SWAPCHAIN>>

(***************************************************************************)
(* The adapters the driver may report.  An adapter carries what the        *)
(* selectors query: extension and layer names, properties (packed API      *)
(* version, device type), features, queue family properties and the        *)
(* surface support details for the target surface.                         *)
(***************************************************************************)
DeviceTypes == {"DISCRETE_GPU", "INTEGRATED_GPU", "VIRTUAL_GPU", "OTHER", "CPU"}

OptA == "VK_EXT_opt_a"
OptB == "VK_EXT_opt_b"

GraphicsPresentFamily == [queue_flags |-> {"GRAPHICS"}, surface_support |-> TRUE]
GraphicsOnlyFamily    == [queue_flags |-> {"GRAPHICS"}, surface_support |-> FALSE]
PresentOnlyFamily     == [queue_flags |-> {"TRANSFER"}, surface_support |-> TRUE]

Adapter(type, exts) ==
    [ extensions |-> exts,
      layers |-> {},
      properties |-> [api_version |-> make_api_version(0, 1, 2, 0), device_type |-> type],
      features |-> [geometry_shader |-> 1],
      queue_family_properties |-> <<GraphicsPresentFamily>>,
      swap_chain_support_details |->
          [formats |-> <<"B8G8R8A8_SRGB">>, present_modes |-> <<"FIFO">>] ]

\* Adapters that lack nothing, of every class and optional-extension support.
SoundAdapters ==
    {Adapter(t, {VK_KHR_SWAPCHAIN} \cup o) : t \in DeviceTypes, o \in {{}, {OptA}}}
    \cup {Adapter(t, {VK_KHR_SWAPCHAIN} \cup o) :
              t \in {"DISCRETE_GPU", "INTEGRATED_GPU"}, o \in {{OptB}, {OptA, OptB}}}
    \cup {[Adapter("INTEGRATED_GPU", {VK_KHR_SWAPCHAIN}) EXCEPT
              !.queue_family_properties = <<GraphicsOnlyFamily, PresentOnlyFamily>>]}
    \cup {[Adapter("VIRTUAL_GPU", {VK_KHR_SWAPCHAIN}) EXCEPT
              !.properties.api_version = make_api_version(0, 1, 3, 250)]}

\* A discrete adapter with one thing missing (the last one with two).
FlawBase == Adapter("DISCRETE_GPU", {VK_KHR_SWAPCHAIN, OptA})

FlawedAdapters ==
    { [FlawBase EXCEPT !.queue_family_properties = <<PresentOnlyFamily>>],
      [FlawBase EXCEPT !.queue_family_properties = <<GraphicsOnlyFamily>>],
      [FlawBase EXCEPT !.queue_family_properties = <<>>],
      [FlawBase EXCEPT !.extensions = {OptA}],
      [FlawBase EXCEPT !.swap_chain_support_details.formats = <<>>],
      [FlawBase EXCEPT !.swap_chain_support_details.present_modes = <<>>],
      [FlawBase EXCEPT !.properties.api_version = make_api_version(0, 1, 1, 250)],
      [FlawBase EXCEPT !.features.geometry_shader = 0],
      [FlawBase EXCEPT !.features.geometry_shader = 0,
                       !.queue_family_properties = <<GraphicsOnlyFamily>>] }

Adapters == SoundAdapters \cup FlawedAdapters

AdapterLists == UNION {[1..n -> Adapters] : n \in 0..MaxAdapters}

\* The (optional_extensions, ratings) pairs a caller hands to utils.rs;
\* the first is the one Renderer::new uses.
RatingTables ==
    { [optional |-> <<>>, ratings |-> <<>>],
      [optional |-> <<OptA>>, ratings |-> <<10>>],
      [optional |-> <<OptA, OptB>>, ratings |-> <<10, 20>>] }

(***************************************************************************)
(* physical_device.rs: QueueFamiliesIndices::extract.  One pass over the   *)
(* queue families: the first family with the GRAPHICS flag, and the first  *)
(* family that can present to the surface.  Indices are 0-based.           *)
(***************************************************************************)
RECURSIVE extract_from(_, _, _, _)
extract_from(properties, index, graphics_family, present_family) ==
    IF index >= Len(properties)
    THEN [graphics_family |-> graphics_family, present_family |-> present_family]
    ELSE LET property == properties[index + 1]
             g == IF "GRAPHICS" \in property.queue_flags /\ is_none(graphics_family)
                  THEN Some(index) ELSE graphics_family
             p == IF is_none(present_family) /\ property.surface_support
                  THEN Some(index) ELSE present_family
         IN  extract_from(properties, index + 1, g, p)

extract(properties) == extract_from(properties, 0, None, None)

\* physical_device.rs: SwapChainSupportDetails::is_suitable
is_suitable(details) == details.formats # <<>> /\ details.present_modes # <<>>

\* A faulty class score that gives a discrete GPU no more than an integrated one.
device_type_score_discrete_500(device_type) ==
    CASE device_type = "DISCRETE_GPU" -> 500
      [] device_type = "INTEGRATED_GPU" -> 500
      [] device_type = "VIRTUAL_GPU" -> 500
      [] device_type = "OTHER" -> 300
      [] OTHER -> 0

\* physical_device.rs: the match on properties.device_type in rate
device_type_score(device_type) ==
    CASE device_type = "DISCRETE_GPU" -> 1000
      [] device_type = "INTEGRATED_GPU" -> 500
      [] device_type = "VIRTUAL_GPU" -> 500
      [] device_type = "OTHER" -> 300
      [] OTHER -> 0

\* A faulty rate that computes the score before it runs the checks.
rate_scores_first(d) ==
    LET layers == {l \in d.layers :
                      contains(PHYSICAL_DEVICE_OPTIONAL_LAYER_NAMES, l)
                      \/ contains(PHYSICAL_DEVICE_REQUIRED_LAYER_NAMES, l)}
        extensions == {e \in d.extensions :
                          contains(PHYSICAL_DEVICE_OPTIONAL_EXTENSION_NAMES, e)
                          \/ contains(PHYSICAL_DEVICE_REQUIRED_EXTENSION_NAMES, e)}
        queue_family_indices == extract(d.queue_family_properties)
        score == device_type_score(d.properties.device_type)
        rejected == [result |-> None, scored |-> TRUE]
    IN  IF \/ \E r \in 1..Len(PHYSICAL_DEVICE_REQUIRED_LAYER_NAMES) :
                  PHYSICAL_DEVICE_REQUIRED_LAYER_NAMES[r] \notin layers
           \/ \E r \in 1..Len(PHYSICAL_DEVICE_REQUIRED_EXTENSION_NAMES) :
                  PHYSICAL_DEVICE_REQUIRED_EXTENSION_NAMES[r] \notin extensions
           \/ d.features.geometry_shader = 0
           \/ is_none(queue_family_indices.graphics_family)
           \/ is_none(queue_family_indices.present_family)
           \/ ~is_suitable(d.swap_chain_support_details)
           \/ u32_lt(d.properties.api_version, u32_patchless(INSTANCE_API_VERSION))
        THEN rejected
        ELSE [result |-> Some(score), scored |-> TRUE]

(***************************************************************************)
(* physical_device.rs: PhysicalDevice::rate.  `result` is the returned     *)
(* Option<u32>; `scored` records whether control reached the score         *)
(* computation (the match on the device type) before returning.            *)
(***************************************************************************)
rate(d) ==
    LET layers == {l \in d.layers :
                      contains(PHYSICAL_DEVICE_OPTIONAL_LAYER_NAMES, l)
                      \/ contains(PHYSICAL_DEVICE_REQUIRED_LAYER_NAMES, l)}
        extensions == {e \in d.extensions :
                          contains(PHYSICAL_DEVICE_OPTIONAL_EXTENSION_NAMES, e)
                          \/ contains(PHYSICAL_DEVICE_REQUIRED_EXTENSION_NAMES, e)}
        queue_family_indices == extract(d.queue_family_properties)
        rejected == [result |-> None, scored |-> FALSE]
    IN  IF \E r \in 1..Len(PHYSICAL_DEVICE_REQUIRED_LAYER_NAMES) :
               PHYSICAL_DEVICE_REQUIRED_LAYER_NAMES[r] \notin layers
        THEN rejected
        ELSE IF \E r \in 1..Len(PHYSICAL_DEVICE_REQUIRED_EXTENSION_NAMES) :
               PHYSICAL_DEVICE_REQUIRED_EXTENSION_NAMES[r] \notin extensions
        THEN rejected
        ELSE IF d.features.geometry_shader = 0
        THEN rejected
        ELSE IF is_none(queue_family_indices.graphics_family)
                \/ is_none(queue_family_indices.present_family)
        THEN rejected
        ELSE IF ~is_suitable(d.swap_chain_support_details)
        THEN rejected
        ELSE IF u32_lt(d.properties.api_version, u32_patchless(INSTANCE_API_VERSION))
        THEN rejected
        ELSE [result |-> Some(device_type_score(d.properties.device_type)),
              scored |-> TRUE]

(***************************************************************************)
(* Iterator::max_by_key over a sequence of <<index, score>> pairs: the     *)
(* maximum by score; of several equal maxima Rust returns the last.        *)
(***************************************************************************)
RECURSIVE max_by_key_from(_, _, _)
max_by_key_from(items, i, best) ==
    IF i > Len(items) THEN best
    ELSE max_by_key_from(items, i + 1,
                         IF items[i][2] >= best[2] THEN items[i] ELSE best)

max_by_key(items) ==
    IF items = <<>> THEN None ELSE Some(max_by_key_from(items, 2, items[1]))

(***************************************************************************)
(* physical_device.rs: PhysicalDevice::pick.  Rates every adapter, keeps   *)
(* the rated ones, takes the maximum by score; `expect` aborts when there  *)
(* is none.  `selected` is the 0-based position of the adapter returned.   *)
(***************************************************************************)
\* The descriptor PhysicalDevice::pick builds for the adapter it selected:
\* the queries are made again for that adapter.
descriptor_of(available, inner) ==
    [inner |-> inner,
     queue_family_properties |-> available[inner + 1].queue_family_properties,
     queue_family_indices |-> extract(available[inner + 1].queue_family_properties)]

\* A faulty pick that takes the first adapter without rating it.
pick_first_available(available) ==
    IF available = <<>>
    THEN [state |-> "panic", selected |-> -1, rated |-> <<>>, descriptor |-> None]
    ELSE [state |-> "ok", selected |-> 0, rated |-> <<>>,
          descriptor |-> Some(descriptor_of(available, 0))]

pick(available) ==
    LET rated == [i \in 1..Len(available) |-> rate(available[i])]
        RECURSIVE suitable_from(_)
        suitable_from(i) ==
            IF i > Len(available) THEN <<>>
            ELSE (IF is_some(rated[i].result)
                  THEN << <<i - 1, unwrap(rated[i].result)>> >> ELSE <<>>)
                 \o suitable_from(i + 1)
        inner == max_by_key(suitable_from(1))
    IN  IF is_none(inner)
        THEN [state |-> "panic", selected |-> -1, rated |-> rated, descriptor |-> None]
        ELSE [state |-> "ok", selected |-> unwrap(inner)[1], rated |-> rated,
              descriptor |-> Some(descriptor_of(available, unwrap(inner)[1]))]

(***************************************************************************)
(* utils.rs: find_queue_families and QueueFamilyIndices::has_required.     *)
(***************************************************************************)
RECURSIVE find_queue_families_from(_, _, _, _)
find_queue_families_from(properties, index, graphics_family, present_family) ==
    IF index >= Len(properties)
    THEN [graphics_family |-> graphics_family, present_family |-> present_family]
    ELSE LET property == properties[index + 1]
             g == IF "GRAPHICS" \in property.queue_flags
                  THEN (IF is_none(graphics_family) THEN Some(index) ELSE graphics_family)
                  ELSE graphics_family
             p == IF is_none(present_family)
                  THEN (IF property.surface_support THEN Some(index) ELSE present_family)
                  ELSE present_family
         IN  find_queue_families_from(properties, index + 1, g, p)

find_queue_families(properties) == find_queue_families_from(properties, 0, None, None)

\* A faulty has_required that forgets the presentation family.
has_required_graphics_only(indices) == is_some(indices.graphics_family)

has_required(indices) ==
    is_some(indices.graphics_family) /\ is_some(indices.present_family)

\* utils.rs: "2. RATE DEVICE BY EXTENSIONS": the ratings of the optional
\* extensions the adapter reports, summed in list order.
RECURSIVE extension_score_from(_, _, _, _)
extension_score_from(available_extensions, optional, rt, index) ==
    IF index >= Len(optional) THEN 0
    ELSE (IF optional[index + 1] \in available_extensions THEN rt[index + 1] ELSE 0)
         + extension_score_from(available_extensions, optional, rt, index + 1)

\* A faulty step 3 that gives no bonus at all.
discrete_score_none(device_type) == 0

\* utils.rs: "3. RATE DEVICE BY ETC"
discrete_score(device_type) == IF device_type = "DISCRETE_GPU" THEN 1000 ELSE 0

(***************************************************************************)
(* utils.rs: one pass of the 'outer loop of                                *)
(* pick_most_suitable_physical_device over one adapter.  `rejected` is     *)
(* TRUE when the pass ends in `continue 'outer`; `scored` records whether  *)
(* control reached the rating steps 2 and 3; `score` is the local score.   *)
(***************************************************************************)
visit(d, required_extensions, optional, rt) ==
    LET available_extensions == d.extensions
        skipped == [rejected |-> TRUE, scored |-> FALSE, score |-> 0]
    IN  IF ~has_required(find_queue_families(d.queue_family_properties))
        THEN skipped
        ELSE IF \E r \in 1..Len(required_extensions) :
                   required_extensions[r] \notin available_extensions
        THEN skipped
        ELSE IF d.swap_chain_support_details.formats = <<>>
                \/ d.swap_chain_support_details.present_modes = <<>>
        THEN skipped
        ELSE [rejected |-> FALSE, scored |-> TRUE,
              score |-> extension_score_from(available_extensions, optional, rt, 0)
                        + discrete_score(d.properties.device_type)]

(***************************************************************************)
(* utils.rs: pick_most_suitable_physical_device.  `best` is the pair       *)
(* (p_index, score), initially (0, 0), replaced only by a strictly higher  *)
(* score; the function panics when the lengths of the two tables differ    *)
(* and when best.1 is still 0 after the loop.  `log` keeps, per adapter,   *)
(* what the loop pass did.                                                 *)
(***************************************************************************)
RECURSIVE best_from(_, _, _)
best_from(log, p_index, best) ==
    IF p_index >= Len(log) THEN best
    ELSE LET v == log[p_index + 1]
         IN  best_from(log, p_index + 1,
                       IF ~v.rejected /\ v.score > best[2]
                       THEN <<p_index, v.score>> ELSE best)

pick_most_suitable_physical_device(devices, required_extensions, optional, rt) ==
    IF Len(rt) # Len(optional)
    THEN [state |-> "panic", selected |-> -1, log |-> <<>>]
    ELSE LET log == [i \in 1..Len(devices) |->
                        visit(devices[i], required_extensions, optional, rt)]
             best == best_from(log, 0, <<0, 0>>)
         IN  IF best[2] = 0
             THEN [state |-> "panic", selected |-> -1, log |-> log]
             ELSE [state |-> "ok", selected |-> best[1], log |-> log]

(***************************************************************************)
(* The state machine of the Device Selector: the driver reports an adapter *)
(* list, and each revision of the selector is run once over it.            *)
(***************************************************************************)
Pending == [state |-> "pending", selected |-> -1]

InitSelector ==
    /\ physical_devices \in AdapterLists
    /\ \E table \in RatingTables :
          /\ optional_extensions = table.optional
          /\ ratings = table.ratings
    /\ utils_run = Pending
    /\ pick_run = Pending

\* Renderer::new (mod.rs) calling utils::pick_most_suitable_physical_device
PickMostSuitablePhysicalDevice ==
    /\ utils_run.state = "pending"
    /\ utils_run' = pick_most_suitable_physical_device(
                        physical_devices, REQUIRED_DEVICE_EXTENSIONS,
                        optional_extensions, ratings)
    /\ UNCHANGED <<physical_devices, optional_extensions, ratings, pick_run>>
    /\ UNCHANGED outside_selector

\* PhysicalDevice::pick
Pick ==
    /\ pick_run.state = "pending"
    /\ pick_run' = pick(physical_devices)
    /\ UNCHANGED <<physical_devices, optional_extensions, ratings, utils_run>>
    /\ UNCHANGED outside_selector

NextSelector == PickMostSuitablePhysicalDevice \/ Pick

(***************************************************************************)
(* Part 2: the Frame Driver.  main.rs calls renderer.draw_frame() once per *)
(* RedrawRequested event; draw_frame itself follows the six steps of the   *)
(* Frame Driver description.  The GPU and the presentation engine run      *)
(* concurrently with the CPU and are modelled as actions of their own.     *)
(***************************************************************************)
ImageIds == 0..(NumImages - 1)

\* A subpass dependency whose source stage is not the stage the submission
\* waits at (what the render pass gets when src_stage_mask is left out).
subpass_dependency_top_of_pipe ==
    [ src_subpass |-> "SUBPASS_EXTERNAL", dst_subpass |-> 0,
      src_stage_mask |-> "TOP_OF_PIPE",
      dst_stage_mask |-> "COLOR_ATTACHMENT_OUTPUT",
      dst_access_mask |-> "COLOR_ATTACHMENT_WRITE" ]

\* pipeline_graphics.rs: the render pass's subpass dependency
\* (SUBPASS_EXTERNAL -> subpass 0).  The layout transition of the colour
\* attachment at the start of the render pass happens after the source
\* stage and before the destination stage.
subpass_dependency ==
    [ src_subpass |-> "SUBPASS_EXTERNAL", dst_subpass |-> 0,
      src_stage_mask |-> "COLOR_ATTACHMENT_OUTPUT",
      dst_stage_mask |-> "COLOR_ATTACHMENT_OUTPUT",
      dst_access_mask |-> "COLOR_ATTACHMENT_WRITE" ]

\* Step 5: the pipeline stage at which the submission waits on the
\* image-available semaphore.
wait_dst_stage_mask == "COLOR_ATTACHMENT_OUTPUT"

\* A swapchain image: who owns it, whether the presentation engine has
\* released it to the application since it was acquired (the moment the
\* image-available signal is given), and whether the GPU has finished
\* rendering to it since it was acquired.
FreeImage == [owner |-> "engine", released |-> FALSE, rendered |-> FALSE]

InitFrame ==
    /\ pc = "Idle"
    /\ frame_state = "Idle"
    /\ steps = <<>>
    /\ visited = <<>>
    /\ frames = 0
    /\ in_flight_fence = TRUE
    /\ image_available = FALSE
    /\ render_finished = FALSE
    /\ image_index = -1
    /\ command_buffer = [status |-> "initial", image |-> -1]
    /\ images = [i \in ImageIds |-> FreeImage]
    /\ gpu = <<>>
    /\ present_queue = <<>>

\* main.rs: Event::RedrawRequested => renderer.draw_frame().  The closure
\* runs on the one event-loop thread, so a call starts only when no call
\* is running.
RedrawRequested ==
    /\ life = "running"
    /\ event_loop \in {"running", "exit"}
    /\ pc = "Idle"
    /\ frames < MaxFrames
    /\ pc' = "wait_fence"
    /\ steps' = <<>>
    /\ visited' = <<"Idle">>
    /\ loop_calls' = [loop_calls EXCEPT !.redraw_requested = @ + 1, !.draw_frame = @ + 1,
                                        !.redraw_pending = FALSE]
    /\ UNCHANGED <<frame_state, frames, in_flight_fence, image_available, render_finished,
                   image_index, command_buffer, images, gpu, present_queue>>
    /\ UNCHANGED <<selector_vars, chain_vars, teardown_vars, life_vars>>

\* A faulty handler that draws a frame for the redraw request of any window.
RedrawRequestedOfOtherWindowDraws ==
    /\ life = "running"
    /\ event_loop \in {"running", "exit"}
    /\ pc = "Idle"
    /\ frames < MaxFrames
    /\ loop_calls.ignored < MaxCalls
    /\ pc' = "wait_fence"
    /\ steps' = <<>>
    /\ visited' = <<"Idle">>
    /\ loop_calls' = [loop_calls EXCEPT !.ignored = @ + 1, !.draw_frame = @ + 1]
    /\ UNCHANGED <<frame_state, frames, in_flight_fence, image_available, render_finished,
                   image_index, command_buffer, images, gpu, present_queue>>
    /\ UNCHANGED <<selector_vars, chain_vars, teardown_vars, life_vars>>

\* main.rs: Event::RedrawRequested(window_id) with the id of another
\* window, or any event the closure has no arm for: `_ => ()`.
RedrawRequestedOfOtherWindow ==
    /\ life = "running"
    /\ event_loop \in {"running", "exit"}
    /\ pc = "Idle"
    /\ loop_calls.ignored < MaxCalls
    /\ loop_calls' = [loop_calls EXCEPT !.ignored = @ + 1]
    /\ UNCHANGED <<frame_vars, selector_vars, chain_vars, teardown_vars, life_vars>>

\* main.rs: Event::MainEventsCleared => window.request_redraw(): the
\* window system will deliver a redraw request for the window.
MainEventsCleared ==
    /\ life = "running"
    /\ event_loop \in {"running", "exit"}
    /\ pc = "Idle"
    /\ ~loop_calls.redraw_pending
    /\ loop_calls' = [loop_calls EXCEPT !.redraw_pending = TRUE]
    /\ UNCHANGED <<frame_vars, selector_vars, chain_vars, teardown_vars, life_vars>>

\* A faulty step that ignores the error of its driver call: draw_frame
\* returns as after a frame.
FrameStepFailureIgnored(step) ==
    /\ pc' = "Idle"
    /\ frame_state' = "Idle"
    /\ frames' = frames + 1
    /\ trace' = Append(trace, Fail(step, frames + 1))
    /\ UNCHANGED <<steps, visited, in_flight_fence, image_available,
                   render_finished, image_index, command_buffer, images, gpu,
                   present_queue>>
    /\ UNCHANGED <<failing_call, owned, life, life_objects>>
    /\ UNCHANGED <<selector_vars, chain_vars, teardown_vars, loop_calls>>

\* A step of draw_frame whose driver call returns an error: the result is
\* unwrapped, so the call panics there.
FrameStepFails(step) ==
    /\ pc' = "panicked"
    /\ trace' = Append(trace, Fail(step, frames + 1))
    /\ life' \in PanicStrategies
    /\ UNCHANGED <<frame_state, steps, visited, frames, in_flight_fence, image_available,
                   render_finished, image_index, command_buffer, images, gpu,
                   present_queue>>
    /\ UNCHANGED <<failing_call, owned, life_objects>>
    /\ UNCHANGED <<selector_vars, chain_vars, teardown_vars, loop_calls>>

\* A faulty step 1 that does not block on the fence.
WaitForFencesNoWait ==
    /\ pc = "wait_fence"
    /\ pc' = "reset_fence"
    /\ steps' = Append(steps, "wait_fence")
    /\ UNCHANGED <<frame_state, visited, frames, in_flight_fence, image_available,
                   render_finished, image_index, command_buffer, images, gpu, present_queue>>
    /\ UNCHANGED outside_frame

\* Step 1: block on the in-flight fence (no timeout).
WaitForFences ==
    /\ pc = "wait_fence"
    /\ in_flight_fence
    /\ pc' = "reset_fence"
    /\ steps' = Append(steps, "wait_fence")
    /\ UNCHANGED <<frame_state, visited, frames, in_flight_fence, image_available,
                   render_finished, image_index, command_buffer, images, gpu, present_queue>>
    /\ UNCHANGED outside_frame

\* A faulty driver that leaves out step 2.
ResetFencesSkipped ==
    /\ pc = "reset_fence"
    /\ pc' = "acquire"
    /\ frame_state' = "Acquiring"
    /\ visited' = Append(visited, "Acquiring")
    /\ UNCHANGED <<steps, frames, in_flight_fence, image_available, render_finished,
                   image_index, command_buffer, images, gpu, present_queue>>
    /\ UNCHANGED outside_frame

\* Step 2: reset the fence to unsignaled.
ResetFences ==
    /\ pc = "reset_fence"
    /\ in_flight_fence' = FALSE
    /\ pc' = "acquire"
    /\ frame_state' = "Acquiring"
    /\ steps' = Append(steps, "reset_fence")
    /\ visited' = Append(visited, "Acquiring")
    /\ UNCHANGED <<frames, image_available, render_finished, image_index, command_buffer,
                   images, gpu, present_queue>>
    /\ UNCHANGED outside_frame

\* Step 3: acquire the next presentable image (blocks until the engine can
\* hand one out); the image-available semaphore is signaled later, when
\* the engine has released the image.
AcquireNextImage ==
    /\ pc = "acquire"
    /\ IF Fails("acquire_next_image", frames + 1)
       THEN FrameStepFails("acquire_next_image")
       ELSE /\ \E i \in ImageIds :
                  /\ images[i].owner = "engine"
                  /\ image_index' = i
                  /\ images' = [images EXCEPT ![i] =
                                   [owner |-> "app", released |-> FALSE, rendered |-> FALSE]]
            /\ pc' = "record"
            /\ frame_state' = "Recording"
            /\ steps' = Append(steps, "acquire")
            /\ visited' = Append(visited, "Recording")
            /\ UNCHANGED <<frames, in_flight_fence, image_available, render_finished,
                           command_buffer, gpu, present_queue>>
            /\ UNCHANGED outside_frame

\* Step 4: reset and re-record the single command buffer for the
\* framebuffer of the acquired image.
ResetAndRecordCommandBuffer ==
    /\ pc = "record"
    /\ command_buffer' = [status |-> "executable", image |-> image_index]
    /\ pc' = "submit"
    /\ steps' = Append(steps, "record")
    /\ UNCHANGED <<frame_state, visited, frames, in_flight_fence, image_available,
                   render_finished, image_index, images, gpu, present_queue>>
    /\ UNCHANGED outside_frame

\* Step 5: submit to the graphics queue; the command buffer is pending
\* until the GPU completes the submission.
QueueSubmit ==
    /\ pc = "submit"
    /\ IF Fails("queue_submit", frames + 1)
       THEN FrameStepFails("queue_submit")
       ELSE /\ gpu' = Append(gpu, [image |-> command_buffer.image, waited |-> FALSE,
                                   transitioned |-> FALSE, output |-> FALSE])
            /\ command_buffer' = [command_buffer EXCEPT !.status = "pending"]
            /\ pc' = "present"
            /\ frame_state' = "Submitted"
            /\ steps' = Append(steps, "submit")
            /\ visited' = Append(visited, "Submitted")
            /\ UNCHANGED <<frames, in_flight_fence, image_available, render_finished,
                           image_index, images, present_queue>>
            /\ UNCHANGED outside_frame

\* Step 6: queue the present of the acquired image on the presentation
\* queue; the request waits on the render-finished semaphore.
QueuePresent ==
    /\ pc = "present"
    /\ IF Fails("queue_present", frames + 1)
       THEN FrameStepFails("queue_present")
       ELSE /\ present_queue' = Append(present_queue, image_index)
            /\ pc' = "return"
            /\ frame_state' = "Presenting"
            /\ steps' = Append(steps, "present")
            /\ visited' = Append(visited, "Presenting")
            /\ UNCHANGED <<frames, in_flight_fence, image_available, render_finished,
                           image_index, command_buffer, images, gpu>>
            /\ UNCHANGED outside_frame

\* draw_frame returns to the event loop.
Return ==
    /\ pc = "return"
    /\ pc' = "Idle"
    /\ frame_state' = "Idle"
    /\ visited' = Append(visited, "Idle")
    /\ frames' = frames + 1
    /\ image_index' = -1
    /\ UNCHANGED <<steps, in_flight_fence, image_available, render_finished,
                   command_buffer, images, gpu, present_queue>>
    /\ UNCHANGED outside_frame

\* Presentation engine: releases an acquired image and signals the
\* image-available semaphore.
EngineReleasesImage ==
    /\ \E i \in ImageIds :
          /\ images[i].owner = "app"
          /\ ~images[i].released
          /\ images' = [images EXCEPT ![i].released = TRUE]
    /\ image_available' = TRUE
    /\ UNCHANGED <<pc, frame_state, steps, visited, frames, in_flight_fence, render_finished,
                   image_index, command_buffer, gpu, present_queue>>
    /\ UNCHANGED outside_frame

\* GPU: the oldest submission passes its semaphore wait (consuming the
\* signal) at the wait stage.
GpuWaitSemaphore ==
    /\ gpu # <<>>
    /\ ~Head(gpu).waited
    /\ image_available
    /\ image_available' = FALSE
    /\ gpu' = [gpu EXCEPT ![1].waited = TRUE]
    /\ UNCHANGED <<pc, frame_state, steps, visited, frames, in_flight_fence, render_finished,
                   image_index, command_buffer, images, present_queue>>
    /\ UNCHANGED outside_frame

\* GPU: the layout transition at the start of the render pass.  It is
\* held back by the semaphore wait only when the subpass dependency's
\* source stage is the stage the submission waits at.
GpuLayoutTransition ==
    /\ gpu # <<>>
    /\ ~Head(gpu).transitioned
    /\ subpass_dependency.src_stage_mask = wait_dst_stage_mask => Head(gpu).waited
    /\ gpu' = [gpu EXCEPT ![1].transitioned = TRUE]
    /\ UNCHANGED <<pc, frame_state, steps, visited, frames, in_flight_fence, image_available,
                   render_finished, image_index, command_buffer, images, present_queue>>
    /\ UNCHANGED outside_frame

\* GPU: colour-attachment output (clear and draw) starts.
GpuColorOutput ==
    /\ gpu # <<>>
    /\ Head(gpu).transitioned
    /\ wait_dst_stage_mask = "COLOR_ATTACHMENT_OUTPUT" => Head(gpu).waited
    /\ ~Head(gpu).output
    /\ gpu' = [gpu EXCEPT ![1].output = TRUE]
    /\ UNCHANGED <<pc, frame_state, steps, visited, frames, in_flight_fence, image_available,
                   render_finished, image_index, command_buffer, images, present_queue>>
    /\ UNCHANGED outside_frame

\* GPU: the oldest submission completes: the render-finished semaphore and
\* the in-flight fence are signaled, the command buffer is no longer pending.
GpuCompletes ==
    /\ gpu # <<>>
    /\ Head(gpu).output
    /\ Head(gpu).waited
    /\ images' = [images EXCEPT ![Head(gpu).image].rendered = TRUE]
    /\ gpu' = Tail(gpu)
    /\ render_finished' = TRUE
    /\ in_flight_fence' = TRUE
    /\ command_buffer' = [command_buffer EXCEPT
                             !.status = IF Len(gpu) = 1 THEN "executable" ELSE @]
    /\ UNCHANGED <<pc, frame_state, steps, visited, frames, image_available, image_index,
                   present_queue>>
    /\ UNCHANGED outside_frame

\* Presentation engine: the oldest present request passes its wait on the
\* render-finished semaphore (consuming the signal); the image goes on
\* screen and back to the engine.
EnginePresents ==
    /\ present_queue # <<>>
    /\ render_finished
    /\ render_finished' = FALSE
    /\ images' = [images EXCEPT ![Head(present_queue)].owner = "engine"]
    /\ present_queue' = Tail(present_queue)
    /\ UNCHANGED <<pc, frame_state, steps, visited, frames, in_flight_fence, image_available,
                   image_index, command_buffer, gpu>>
    /\ UNCHANGED outside_frame

DrawFrame ==
    \/ WaitForFences
    \/ ResetFences
    \/ AcquireNextImage
    \/ ResetAndRecordCommandBuffer
    \/ QueueSubmit
    \/ QueuePresent
    \/ Return

GpuAndEngine ==
    \/ EngineReleasesImage
    \/ GpuWaitSemaphore
    \/ GpuLayoutTransition
    \/ GpuColorOutput
    \/ GpuCompletes
    \/ EnginePresents

NextFrame ==
    \/ RedrawRequested
    \/ RedrawRequestedOfOtherWindow
    \/ MainEventsCleared
    \/ DrawFrame
    \/ GpuAndEngine

(***************************************************************************)
(* Part 3: the Presentation Chain Builder.                                 *)
(***************************************************************************)

\* The "extent matches window" sentinel of current_extent.width: u32::MAX,
\* all 32 bits set, which is -1 in the two's-complement writing of a u32.
\* It is only ever tested for equality, and no other width equals it.
U32_MAX == -1

\* Rust Ord::clamp, for min <= max; see clamp_panics for the other case.
clamp(x, min, max) == IF x < min THEN min ELSE IF x > max THEN max ELSE x

\* Rust Ord::clamp asserts min <= max and panics otherwise.
clamp_panics(min, max) == min > max

Extent2D(w, h) == [width |-> w, height |-> h]

\* A faulty choose_format that looks at the format and not at the colour space.
choose_format_any_color_space(formats) ==
    LET preferred == {i \in 1..Len(formats) : formats[i].format = "B8G8R8A8_SRGB"}
    IN  IF preferred # {}
        THEN formats[CHOOSE i \in preferred : \A j \in preferred : i <= j]
        ELSE formats[1]

\* physical_device.rs: SwapChainSupportDetails::choose_format
choose_format(formats) ==
    LET preferred == {i \in 1..Len(formats) :
                         /\ formats[i].format = "B8G8R8A8_SRGB"
                         /\ formats[i].color_space = "SRGB_NONLINEAR"}
    IN  IF preferred # {}
        THEN formats[CHOOSE i \in preferred : \A j \in preferred : i <= j]
        ELSE formats[1]

\* utils.rs: SwapChainSupportDetails::choose_format
utils_choose_format(formats) ==
    LET preferred == {i \in 1..Len(formats) :
                         /\ formats[i].format = "B8G8R8A8_SRGB"
                         /\ formats[i].color_space = "SRGB_NONLINEAR"}
    IN  IF preferred # {}
        THEN formats[CHOOSE i \in preferred : \A j \in preferred : i <= j]
        ELSE formats[1]

\* A faulty choose_present_mode that takes whatever the driver lists first.
choose_present_mode_first(present_modes) == present_modes[1]

\* physical_device.rs: SwapChainSupportDetails::choose_present_mode
choose_present_mode(present_modes) ==
    IF \E i \in 1..Len(present_modes) : present_modes[i] = "MAILBOX"
    THEN "MAILBOX"
    ELSE "FIFO"

\* utils.rs: SwapChainSupportDetails::choose_presentation_mode
choose_presentation_mode(present_modes) ==
    IF \E i \in 1..Len(present_modes) : present_modes[i] = "MAILBOX"
    THEN "MAILBOX"
    ELSE "FIFO"

\* A faulty choose_swap_extent that clamps the height against the width bounds.
choose_swap_extent_width_bounds(capabilities, inner_size) ==
    IF capabilities.current_extent.width # U32_MAX
    THEN capabilities.current_extent
    ELSE Extent2D(clamp(inner_size.width,
                        capabilities.min_image_extent.width,
                        capabilities.max_image_extent.width),
                  clamp(inner_size.height,
                        capabilities.min_image_extent.width,
                        capabilities.max_image_extent.width))

\* A faulty choose_swap_extent that takes the window size as it is.
choose_swap_extent_unclamped(capabilities, inner_size) ==
    IF capabilities.current_extent.width # U32_MAX
    THEN capabilities.current_extent
    ELSE Extent2D(inner_size.width, inner_size.height)

\* physical_device.rs: SwapChainSupportDetails::choose_swap_extent
choose_swap_extent(capabilities, inner_size) ==
    IF capabilities.current_extent.width # U32_MAX
    THEN capabilities.current_extent
    ELSE Extent2D(clamp(inner_size.width,
                        capabilities.min_image_extent.width,
                        capabilities.max_image_extent.width),
                  clamp(inner_size.height,
                        capabilities.min_image_extent.height,
                        capabilities.max_image_extent.height))

\* The calls of choose_swap_extent and of choose_swap_extend that panic:
\* those that reach a clamp whose bounds are out of order.
choose_swap_extent_panics(capabilities) ==
    /\ capabilities.current_extent.width = U32_MAX
    /\ \/ clamp_panics(capabilities.min_image_extent.width,
                       capabilities.max_image_extent.width)
       \/ clamp_panics(capabilities.min_image_extent.height,
                       capabilities.max_image_extent.height)

\* utils.rs: SwapChainSupportDetails::choose_swap_extend
choose_swap_extend(capabilities, size) ==
    IF capabilities.current_extent.width # U32_MAX
    THEN capabilities.current_extent
    ELSE LET result == Extent2D(size.width, size.height)
             width == clamp(result.width,
                            capabilities.min_image_extent.width,
                            capabilities.max_image_extent.width)
             height == clamp(result.height,
                             capabilities.min_image_extent.height,
                             capabilities.max_image_extent.height)
         IN  Extent2D(width, height)

\* utils.rs: SwapChainSupportDetails::choose_image_count
choose_image_count(capabilities) ==
    LET image_count == capabilities.min_image_count + 1
    IN  IF capabilities.max_image_count > 0 /\ capabilities.max_image_count > image_count
        THEN capabilities.max_image_count
        ELSE image_count

\* A faulty count that requests min_image_count and no image more.
image_count_no_spare(capabilities) ==
    LET image_count == capabilities.min_image_count
    IN  IF capabilities.max_image_count > 0 /\ image_count > capabilities.max_image_count
        THEN capabilities.max_image_count
        ELSE image_count

\* swapchain.rs: the image_count of SwapChain::new
image_count(capabilities) ==
    LET image_count0 == capabilities.min_image_count + 1
    IN  IF capabilities.max_image_count > 0 /\ image_count0 > capabilities.max_image_count
        THEN capabilities.max_image_count
        ELSE image_count0

\* A faulty sharing declaration that is exclusive whatever the families.
sharing_always_exclusive(graphics_family, present_family) ==
    [image_sharing_mode |-> "EXCLUSIVE", queue_family_indices |-> <<>>]

\* swapchain.rs: the sharing mode of SwapChain::new
sharing(graphics_family, present_family) ==
    IF graphics_family # present_family
    THEN [image_sharing_mode |-> "CONCURRENT",
          queue_family_indices |-> <<graphics_family, present_family>>]
    ELSE [image_sharing_mode |-> "EXCLUSIVE", queue_family_indices |-> <<>>]

\* mod.rs: the sharing mode of Renderer::create_swap_chain
create_swap_chain_sharing(indices) ==
    LET indices_arr == <<unwrap(indices.graphics_family), unwrap(indices.present_family)>>
    IN  IF indices_arr[1] # indices_arr[2]
        THEN [image_sharing_mode |-> "CONCURRENT", queue_family_indices |-> indices_arr]
        ELSE [image_sharing_mode |-> "EXCLUSIVE", queue_family_indices |-> <<>>]

(***************************************************************************)
(* The snapshots a chain is built from.  Every selection reads its own     *)
(* part of the snapshot, so each part is varied over its whole range with  *)
(* the other parts at their default.  A snapshot is one the driver can     *)
(* report for a selected adapter: min_image_count >= 1, max_image_count 0  *)
(* or >= min_image_count, min_image_extent <= max_image_extent, non-empty  *)
(* format and present-mode lists (FIFO always listed), both queue family   *)
(* indices resolved.                                                       *)
(***************************************************************************)
Bgra == [format |-> "B8G8R8A8_SRGB", color_space |-> "SRGB_NONLINEAR"]

SurfaceFormats ==
    { Bgra,
      [format |-> "B8G8R8A8_UNORM", color_space |-> "SRGB_NONLINEAR"],
      [format |-> "B8G8R8A8_SRGB", color_space |-> "EXTENDED_SRGB_LINEAR_EXT"],
      [format |-> "R8G8B8A8_SRGB", color_space |-> "SRGB_NONLINEAR"] }

PresentModes == {"FIFO", "MAILBOX", "IMMEDIATE"}

Sentinel == Extent2D(U32_MAX, U32_MAX)

DefaultCapabilities ==
    [min_image_count |-> 1, max_image_count |-> 0, current_extent |-> Sentinel,
     min_image_extent |-> Extent2D(1, 1),
     max_image_extent |-> Extent2D(MaxExtent, MaxExtent)]

DefaultSnapshot ==
    [capabilities |-> DefaultCapabilities,
     formats |-> <<Bgra>>,
     present_modes |-> <<"FIFO">>,
     inner_size |-> Extent2D(1, 1),
     queue_family_properties |-> <<GraphicsPresentFamily>>]

WindowSizes == {Extent2D(w, h) : w \in 0..(MaxExtent + 1), h \in 0..(MaxExtent + 1)}

ExtentSnapshots ==
    { [DefaultSnapshot EXCEPT !.capabilities.min_image_extent.width = lo,
                              !.capabilities.max_image_extent.width = hi,
                              !.inner_size = size] :
          lo \in 1..MaxExtent, hi \in 1..MaxExtent, size \in WindowSizes }
    \cup
    { [DefaultSnapshot EXCEPT !.capabilities.min_image_extent.height = lo,
                              !.capabilities.max_image_extent.height = hi,
                              !.inner_size = size] :
          lo \in 1..MaxExtent, hi \in 1..MaxExtent, size \in WindowSizes }
    \cup
    { [DefaultSnapshot EXCEPT !.capabilities.current_extent = Extent2D(w, h),
                              !.inner_size = size] :
          w \in 0..(MaxExtent + 1), h \in 0..(MaxExtent + 1), size \in WindowSizes }
    \cup
    { [DefaultSnapshot EXCEPT !.capabilities.current_extent = Extent2D(1, 1),
                              !.capabilities.min_image_extent.width = lo,
                              !.capabilities.max_image_extent.width = hi] :
          lo \in 1..MaxExtent, hi \in 1..MaxExtent }
    \cup
    { [DefaultSnapshot EXCEPT !.capabilities.max_image_extent = Extent2D(4096, 4096),
                              !.inner_size = Extent2D(1024, 768)] }

CountSnapshots ==
    { [DefaultSnapshot EXCEPT !.capabilities.min_image_count = lo,
                              !.capabilities.max_image_count = hi] :
          lo \in 1..MaxImageCount, hi \in 0..MaxImageCount }

ListsOver(S) == UNION {[1..n -> S] : n \in 1..MaxListLen}

FormatSnapshots ==
    { [DefaultSnapshot EXCEPT !.formats = formats] : formats \in ListsOver(SurfaceFormats) }

PresentModeSnapshots ==
    { [DefaultSnapshot EXCEPT !.present_modes = present_modes] :
          present_modes \in ListsOver(PresentModes) }

FamilySnapshots ==
    { [DefaultSnapshot EXCEPT !.queue_family_properties = properties] :
          properties \in { <<GraphicsPresentFamily>>,
                           <<GraphicsOnlyFamily, PresentOnlyFamily>>,
                           <<PresentOnlyFamily, GraphicsOnlyFamily>>,
                           <<PresentOnlyFamily, GraphicsPresentFamily>> } }

\* Every snapshot a surface may report: SwapChainSupportDetails::extract
\* takes what the driver gives and checks none of it.
Snapshots ==
    ExtentSnapshots \cup CountSnapshots \cup FormatSnapshots
        \cup PresentModeSnapshots \cup FamilySnapshots

NoSwapChain == [state |-> "none"]

InitChain ==
    /\ snapshot \in Snapshots
    /\ swap_chain = NoSwapChain
    /\ create_swap_chain_run = NoSwapChain
    /\ format_calls = <<>>

\* The images the driver creates for a chain: at least the requested number.
DriverImages(requested) == {[i \in 1..n |-> i] : n \in requested..(requested + MaxExtraImages)}

\* The most images a chain built on the default capabilities can have, hence
\* the most create_image_view calls of one construction.
MaxImages == image_count(DefaultCapabilities) + MaxExtraImages

\* swapchain.rs: one view per image, in the order of the images.
ImageViews(imgs) == [i \in 1..Len(imgs) |-> [image |-> imgs[i]]]

\* swapchain.rs: SwapChain::new
SwapChainNew ==
    /\ life = "starting"
    /\ owned # <<>>
    /\ owned[Len(owned)] = "device"
    /\ swap_chain.state = "none"
    /\ LET details == snapshot
           surface_format == choose_format(details.formats)
           present_mode == choose_present_mode(details.present_modes)
           extent == choose_swap_extent(details.capabilities, details.inner_size)
           count == image_count(details.capabilities)
           queue_family_indices == extract(details.queue_family_properties)
           shared == sharing(unwrap(queue_family_indices.graphics_family),
                             unwrap(queue_family_indices.present_family))
           create_info ==
               [min_image_count |-> count,
                image_format |-> surface_format.format,
                image_color_space |-> surface_format.color_space,
                image_extent |-> extent,
                present_mode |-> present_mode,
                image_sharing_mode |-> shared.image_sharing_mode,
                queue_family_indices |-> shared.queue_family_indices]
       IN  IF choose_swap_extent_panics(details.capabilities)
           THEN /\ swap_chain' = [state |-> "panicked", at |-> "choose_swap_extent"]
                /\ life' \in PanicStrategies
                /\ UNCHANGED <<owned, trace>>
           ELSE IF Fails("create_swapchain", 1)
           THEN /\ swap_chain' = [state |-> "panicked", at |-> "create_swapchain"]
                /\ trace' = Append(trace, Fail("swapchain", 1))
                /\ life' \in PanicStrategies
                /\ UNCHANGED owned
           ELSE \E imgs \in DriverImages(count) :
                  LET views == CreateAll("create_image_view", "image_view", 1, Len(imgs))
                  IN  IF Fails("get_swapchain_images", 1) \/ ~views.ok
                      THEN \* the raw swapchain and the views made so far are
                           \* owned by no wrapper yet: nothing destroys them
                           /\ swap_chain' =
                                  [state |-> "panicked",
                                   at |-> IF Fails("get_swapchain_images", 1)
                                          THEN "get_swapchain_images"
                                          ELSE "create_image_view"]
                           /\ trace' = trace \o <<Create("swapchain", 1)>>
                                       \o (IF Fails("get_swapchain_images", 1)
                                           THEN <<Fail("images", 1)>>
                                           ELSE views.events)
                           /\ life' \in PanicStrategies
                           /\ UNCHANGED owned
                      ELSE /\ swap_chain' =
                                  [state |-> "created",
                                   create_info |-> create_info,
                                   images |-> imgs,
                                   image_views |-> ImageViews(imgs),
                                   surface_format |-> surface_format,
                                   present_mode |-> present_mode,
                                   framebuffers |-> <<>>,
                                   extent |-> extent,
                                   framebuffer_calls |-> 0]
                           /\ trace' = trace \o <<Create("swapchain", 1)>> \o views.events
                           /\ owned' = Append(owned, "swap_chain")
                           /\ UNCHANGED life
    /\ UNCHANGED <<snapshot, create_swap_chain_run, format_calls>>
    /\ UNCHANGED <<failing_call, life_objects>>
    /\ UNCHANGED <<selector_vars, frame_vars, teardown_vars, loop_calls>>

\* A faulty create_framebuffers that does not clear the list first.
CreateFramebuffersNoClear ==
    /\ life = "starting"
    /\ graphics_pipeline.state = "created"
    /\ swap_chain.state = "created"
    /\ swap_chain.framebuffer_calls < MaxCalls
    /\ LET n == Len(swap_chain.image_views)
           first == swap_chain.framebuffer_calls * n + 1
           made == CreateAll("create_framebuffer", "framebuffer", first, first + n - 1)
           count == Len(SelectSeq(made.events, LAMBDA e : e.op = "create"))
       IN  /\ swap_chain' =
                  [swap_chain EXCEPT
                      !.framebuffers =
                          @ \o [i \in 1..count |->
                                   [handle |-> first + i - 1,
                                    attachments |-> <<swap_chain.image_views[i]>>,
                                    width |-> swap_chain.extent.width,
                                    height |-> swap_chain.extent.height]],
                      !.framebuffer_calls = @ + 1]
           /\ trace' = trace \o made.events
           /\ IF made.ok THEN UNCHANGED life ELSE life' \in PanicStrategies
    /\ UNCHANGED <<snapshot, create_swap_chain_run, format_calls>>
    /\ UNCHANGED <<failing_call, owned, life_objects>>
    /\ UNCHANGED <<selector_vars, frame_vars, teardown_vars, loop_calls>>

\* swapchain.rs: SwapChain::create_framebuffers
\* self.framebuffers.clear() forgets the handles of the earlier call
\* without destroying them; a create_framebuffer that fails panics with the
\* handles made so far in the list.
CreateFramebuffers ==
    /\ life = "starting"
    /\ graphics_pipeline.state = "created"
    /\ swap_chain.state = "created"
    /\ swap_chain.framebuffer_calls < MaxCalls
    /\ LET n == Len(swap_chain.image_views)
           first == swap_chain.framebuffer_calls * n + 1
           made == CreateAll("create_framebuffer", "framebuffer", first, first + n - 1)
           count == Len(SelectSeq(made.events, LAMBDA e : e.op = "create"))
       IN  /\ swap_chain' =
                  [swap_chain EXCEPT
                      !.framebuffers =
                          [i \in 1..count |->
                              [handle |-> first + i - 1,
                               attachments |-> <<swap_chain.image_views[i]>>,
                               width |-> swap_chain.extent.width,
                               height |-> swap_chain.extent.height]],
                      !.framebuffer_calls = @ + 1]
           /\ trace' = trace \o made.events
           /\ IF made.ok THEN UNCHANGED life ELSE life' \in PanicStrategies
    /\ UNCHANGED <<snapshot, create_swap_chain_run, format_calls>>
    /\ UNCHANGED <<failing_call, owned, life_objects>>
    /\ UNCHANGED <<selector_vars, frame_vars, teardown_vars, loop_calls>>

\* mod.rs: Renderer::create_swap_chain, and the views Renderer::new makes
\* of its images (utils::create_image_views).
CreateSwapChain ==
    /\ create_swap_chain_run.state = "none"
    /\ LET swap_chain_support_details == snapshot
           format == utils_choose_format(swap_chain_support_details.formats)
           present_mode ==
               choose_presentation_mode(swap_chain_support_details.present_modes)
           extent == choose_swap_extend(swap_chain_support_details.capabilities,
                                        swap_chain_support_details.inner_size)
           count == choose_image_count(swap_chain_support_details.capabilities)
           indices == find_queue_families(swap_chain_support_details.queue_family_properties)
           shared == create_swap_chain_sharing(indices)
       IN  IF choose_swap_extent_panics(swap_chain_support_details.capabilities)
           THEN create_swap_chain_run' =
                    [state |-> "panicked", at |-> "choose_swap_extend", events |-> <<>>]
           ELSE IF Fails("create_swapchain", 1)
           THEN \* mod.rs:366-370: create_swapchain(..).unwrap()
                create_swap_chain_run' =
                    [state |-> "panicked", at |-> "create_swapchain",
                     events |-> <<Fail("swapchain", 1)>>]
           ELSE IF Fails("get_swapchain_images", 1)
           THEN \* mod.rs:372: get_swapchain_images(..).unwrap()
                create_swap_chain_run' =
                    [state |-> "panicked", at |-> "get_swapchain_images",
                     events |-> <<Create("swapchain", 1), Fail("images", 1)>>]
           ELSE
           \E imgs \in DriverImages(count) :
              \* utils.rs:382: create_image_view(..).unwrap(), once per image
              LET views == CreateAll("create_image_view", "image_view", 1, Len(imgs))
              IN  IF ~views.ok
                  THEN create_swap_chain_run' =
                           [state |-> "panicked", at |-> "create_image_view",
                            events |-> <<Create("swapchain", 1)>> \o views.events]
                  ELSE create_swap_chain_run' =
                  [state |-> "created",
                   create_info |->
                       [min_image_count |-> count,
                        image_format |-> format.format,
                        image_color_space |-> format.color_space,
                        image_extent |-> extent,
                        present_mode |-> present_mode,
                        image_sharing_mode |-> shared.image_sharing_mode,
                        queue_family_indices |-> shared.queue_family_indices],
                   images |-> imgs,
                   image_views |-> ImageViews(imgs),
                   format |-> format.format,
                   extent |-> extent,
                   events |-> <<Create("swapchain", 1)>> \o views.events]
    /\ UNCHANGED <<snapshot, swap_chain, format_calls>>
    /\ UNCHANGED outside_chain

\* A further call of choose_format on the same details.
ChooseFormat ==
    /\ Len(format_calls) < MaxCalls
    /\ format_calls' = Append(format_calls, choose_format(snapshot.formats))
    /\ UNCHANGED <<snapshot, swap_chain, create_swap_chain_run>>
    /\ UNCHANGED outside_chain

(***************************************************************************)
(* Part 4: the end of the event loop and the teardown.                     *)
(*                                                                         *)
(* main.rs: CloseRequested sets ControlFlow::Exit; the loop then delivers  *)
(* LoopDestroyed, whose handler calls renderer.shutdown(); run_return      *)
(* returns, the closure that owns the renderer is dropped, and             *)
(* impl Drop for Renderer destroys the objects.                            *)
(***************************************************************************)

\* mod.rs: Renderer::new, the objects in the order of their creation; the
\* debug messenger is set up in debug builds only, and only when the
\* instance offers VK_EXT_debug_utils.
created(debug_messenger) ==
    <<"instance">>
    \o (IF is_some(debug_messenger) THEN <<"debug_messenger">> ELSE <<>>)
    \o <<"surface", "device", "swap_chain", "image_views",
         "render_pass", "pipeline_layout", "graphics_pipeline">>

\* mod.rs: impl Drop for Renderer, the objects in the order of their
\* destruction; the debug messenger exists in debug builds only.
drop_order(debug_messenger) ==
    (IF is_some(debug_messenger) THEN <<"debug_messenger">> ELSE <<>>)
    \o <<"image_views", "graphics_pipeline", "pipeline_layout", "render_pass",
         "swap_chain", "surface", "device", "instance">>

InitTeardown ==
    /\ event_loop = "running"
    /\ device_idle = FALSE
    /\ destroyed = <<>>
    /\ loop_calls = [redraw_requested |-> 0, draw_frame |-> 0, close_requested |-> 0,
                     loop_destroyed |-> 0, shutdown |-> 0, ignored |-> 0,
                     redraw_pending |-> FALSE]

\* main.rs: WindowEvent::CloseRequested => ControlFlow::Exit.  Events are
\* handled one at a time, so no draw_frame call is running.  The arm runs
\* for every close request of the window, also for one that follows
\* another in the same iteration of the loop.
CloseRequested ==
    /\ life = "running"
    /\ event_loop \in {"running", "exit"}
    /\ pc = "Idle"
    /\ loop_calls.close_requested < MaxCalls
    /\ event_loop' = "exit"
    /\ loop_calls' = [loop_calls EXCEPT !.close_requested = @ + 1]
    /\ UNCHANGED <<device_idle, destroyed>>
    /\ UNCHANGED <<selector_vars, frame_vars, chain_vars, life_vars>>

\* A faulty handler that does not call shutdown.
LoopDestroyedSkipsShutdown ==
    /\ event_loop = "exit"
    /\ pc = "Idle"
    /\ event_loop' = "drop"
    /\ loop_calls' = [loop_calls EXCEPT !.loop_destroyed = @ + 1]
    /\ UNCHANGED <<device_idle, destroyed>>
    /\ UNCHANGED <<selector_vars, frame_vars, chain_vars, life_vars>>

\* main.rs: Event::LoopDestroyed => renderer.shutdown().
LoopDestroyed ==
    /\ event_loop = "exit"
    /\ pc = "Idle"
    /\ event_loop' = "shutdown"
    /\ loop_calls' = [loop_calls EXCEPT !.loop_destroyed = @ + 1, !.shutdown = @ + 1]
    /\ UNCHANGED <<device_idle, destroyed>>
    /\ UNCHANGED <<selector_vars, frame_vars, chain_vars, life_vars>>

\* Renderer::shutdown: blocks until the device reports idle, that is until
\* the GPU has completed every submission.
Shutdown ==
    /\ event_loop = "shutdown"
    /\ gpu = <<>>
    /\ device_idle' = TRUE
    /\ event_loop' = "drop"
    /\ UNCHANGED destroyed
    /\ UNCHANGED <<selector_vars, frame_vars, chain_vars, life_vars, loop_calls>>

\* mod.rs: impl Drop for Renderer, run when the closure of run_return is
\* dropped.
DropRenderer ==
    /\ event_loop = "drop"
    /\ \E debug_messenger \in {None, Some("messenger")} :
          destroyed' = drop_order(debug_messenger)
    /\ event_loop' = "done"
    /\ UNCHANGED device_idle
    /\ UNCHANGED <<selector_vars, frame_vars, chain_vars, life_vars, loop_calls>>

Teardown == CloseRequested \/ LoopDestroyed \/ Shutdown \/ DropRenderer

NextTeardown == NextFrame \/ Teardown

(***************************************************************************)
(* Part 5: the life of the Vulkan objects.                                 *)
(*                                                                         *)
(* Each wrapper is built by its constructor and released by its impl Drop. *)
(* A constructor that panics leaves the raw handles it had made to nobody; *)
(* the wrappers that already exist are dropped, last built first, when the *)
(* panic unwinds.                                                          *)
(***************************************************************************)
Reverse(seq) == [i \in 1..Len(seq) |-> seq[Len(seq) + 1 - i]]

\* The packed versions the loader may report: the ends and the middle of
\* each bit field.
InstanceVersions ==
    { make_api_version(variant, major, minor, patch) :
          variant \in {0, 1, 3, 7}, major \in {0, 1, 2, 127},
          minor \in {0, 1, 2, 3, 255, 256, 258, 1023}, patch \in {0, 1, 4095} }

NotBuilt == [state |-> "none"]

\* instance.rs: Instance::new
InstanceNew ==
    /\ life = "starting"
    /\ owned = <<>>
    /\ instance.state = "none"
    /\ LET version == IF is_some(instance_version)
                      THEN from_u32(unwrap(instance_version))
                      ELSE ApiVersion(0, 1, 0, 0)
       IN  IF lt(version, INSTANCE_API_VERSION)
           THEN /\ instance' = [state |-> "panicked", version |-> version]
                /\ life' \in PanicStrategies
                /\ UNCHANGED <<owned, trace>>
           ELSE IF Fails("create_instance", 1)
           THEN /\ instance' = [state |-> "panicked", version |-> version]
                /\ trace' = Append(trace, Fail("instance", 1))
                /\ life' \in PanicStrategies
                /\ UNCHANGED owned
           ELSE /\ instance' = [state |-> "created", version |-> version]
                /\ trace' = Append(trace, Create("instance", 1))
                /\ owned' = Append(owned, "instance")
                /\ UNCHANGED life
    /\ UNCHANGED <<failing_call, instance_version, device, create_logical_device_run,
                   create_graphics_pipeline_run, graphics_pipeline, command_pool>>
    /\ UNCHANGED outside_life

\* utils/debug.rs: DebugMessenger::new, for the instance just built; a
\* renderer may also do without a messenger.
DebugMessengerNew ==
    /\ life = "starting"
    /\ owned = <<"instance">>
    /\ IF Fails("create_debug_utils_messenger", 1)
       THEN /\ trace' = Append(trace, Fail("debug_messenger", 1))
            /\ life' \in PanicStrategies
            /\ UNCHANGED owned
       ELSE /\ trace' = Append(trace, Create("debug_messenger", 1))
            /\ owned' = Append(owned, "debug_messenger")
            /\ UNCHANGED life
    /\ UNCHANGED <<failing_call, life_objects>>
    /\ UNCHANGED outside_life

\* surface.rs: Surface::new
SurfaceNew ==
    /\ life = "starting"
    /\ owned # <<>>
    /\ owned[Len(owned)] \in {"instance", "debug_messenger"}
    /\ IF Fails("create_surface", 1)
       THEN /\ trace' = Append(trace, Fail("surface", 1))
            /\ life' \in PanicStrategies
            /\ UNCHANGED owned
       ELSE /\ trace' = Append(trace, Create("surface", 1))
            /\ owned' = Append(owned, "surface")
            /\ UNCHANGED life
    /\ UNCHANGED <<failing_call, life_objects>>
    /\ UNCHANGED outside_life

\* Vec::retain with a HashSet: the first occurrence of each element stays.
RECURSIVE retain_unique(_, _)
retain_unique(result, unique) ==
    IF result = <<>> THEN <<>>
    ELSE IF Head(result) \in unique
         THEN retain_unique(Tail(result), unique)
         ELSE <<Head(result)>> \o retain_unique(Tail(result), unique \cup {Head(result)})

\* A faulty get_unique_indices that does not drop the repeated index.
get_unique_indices_no_retain(queue_family_indices) ==
    (IF is_some(queue_family_indices.graphics_family)
     THEN <<unwrap(queue_family_indices.graphics_family)>> ELSE <<>>)
    \o (IF is_some(queue_family_indices.present_family)
        THEN <<unwrap(queue_family_indices.present_family)>> ELSE <<>>)

\* physical_device.rs: QueueFamiliesIndices::get_unique_indices
get_unique_indices(queue_family_indices) ==
    LET result ==
            (IF is_some(queue_family_indices.graphics_family)
             THEN <<unwrap(queue_family_indices.graphics_family)>> ELSE <<>>)
            \o (IF is_some(queue_family_indices.present_family)
                THEN <<unwrap(queue_family_indices.present_family)>> ELSE <<>>)
    IN  retain_unique(result, {})

\* utils.rs: QueueFamilyIndices::get_unique_indices, a HashSet<u32>
utils_get_unique_indices(indices) ==
    (IF is_some(indices.graphics_family) THEN {unwrap(indices.graphics_family)} ELSE {})
    \cup (IF is_some(indices.present_family) THEN {unwrap(indices.present_family)} ELSE {})

\* The orders in which a HashSet may be iterated.
IterationOrders(set) ==
    { order \in [1..Cardinality(set) -> set] :
          \A i, j \in 1..Cardinality(set) : order[i] = order[j] => i = j }

\* device.rs: Device::new, for the adapter descriptor PhysicalDevice::pick
\* returned (its indices are extract of the queue family properties).
DeviceNew ==
    /\ life = "starting"
    /\ owned # <<>>
    /\ owned[Len(owned)] = "surface"
    /\ device.state = "none"
    /\ LET queue_family_indices == extract(snapshot.queue_family_properties)
           unique_queue_families == get_unique_indices(queue_family_indices)
           queue_create_infos ==
               [i \in 1..Len(unique_queue_families) |->
                   [queue_family_index |-> unique_queue_families[i],
                    queue_priorities |-> <<1>>]]
       IN  IF Fails("create_device", 1)
           THEN /\ device' = [state |-> "panicked",
                              unique_queue_families |-> unique_queue_families,
                              queue_create_infos |-> queue_create_infos]
                /\ trace' = Append(trace, Fail("device", 1))
                /\ life' \in PanicStrategies
                /\ UNCHANGED owned
           ELSE /\ device' =
                       [state |-> "created",
                        unique_queue_families |-> unique_queue_families,
                        queue_create_infos |-> queue_create_infos,
                        graphics_queue |->
                            [family |-> unwrap(queue_family_indices.graphics_family),
                             index |-> 0],
                        present_queue |->
                            [family |-> unwrap(queue_family_indices.present_family),
                             index |-> 0]]
                /\ trace' = Append(trace, Create("device", 1))
                /\ owned' = Append(owned, "device")
                /\ UNCHANGED life
    /\ UNCHANGED <<failing_call, instance_version, instance, create_logical_device_run,
                   create_graphics_pipeline_run, graphics_pipeline, command_pool>>
    /\ UNCHANGED outside_life

\* mod.rs: Renderer::create_logical_device
CreateLogicalDevice ==
    /\ create_logical_device_run.state = "none"
    /\ LET queue_family_indices == find_queue_families(snapshot.queue_family_properties)
           unique_indices == utils_get_unique_indices(queue_family_indices)
       IN  \E order \in IterationOrders(unique_indices) :
              create_logical_device_run' =
                  [state |-> IF Fails("create_device", 1) THEN "panicked" ELSE "created",
                   unique_indices |-> order,
                   create_infos |->
                       [i \in 1..Len(order) |->
                           [queue_family_index |-> order[i],
                            queue_priorities |-> <<1>>,
                            queue_count |-> 1]]]
    /\ UNCHANGED <<failing_call, owned, trace, life, instance_version, instance, device,
                   create_graphics_pipeline_run, graphics_pipeline, command_pool>>
    /\ UNCHANGED outside_life

\* The driver calls of a builder, in the order the builder makes them, up
\* to and including the first that fails: `made` are the objects created.
Made(calls) ==
    LET bad == {i \in 1..Len(calls) : Fails(calls[i].call, calls[i].nth)}
        failed == IF bad = {} THEN 0 ELSE CHOOSE i \in bad : \A j \in bad : i <= j
        count == IF failed = 0 THEN Len(calls) ELSE failed - 1
    IN  [ok |-> failed = 0,
         made |-> [i \in 1..count |-> calls[i]],
         events |-> [i \in 1..count |-> Create(calls[i].kind, calls[i].nth)]
                    \o (IF failed = 0 THEN <<>>
                        ELSE <<Fail(calls[failed].kind, calls[failed].nth)>>)]

\* The destructors of the locals that own their handle (the ShaderModule
\* wrappers), run at the end of the function or when a panic unwinds it:
\* in the reverse order of their declaration.
DropLocals(made) ==
    LET raii == SelectSeq(made, LAMBDA c : c.raii)
    IN  Reverse([i \in 1..Len(raii) |-> Destroy(raii[i].kind, raii[i].nth)])

\* pipeline_graphics.rs: GraphicsPipeline::new.  The render pass, the
\* layout and the pipeline are raw handles until Self is built; the two
\* shader modules are ShaderModule wrappers (shader_module.rs), locals of
\* the function.
GraphicsPipelineCalls ==
    << [call |-> "create_render_pass", kind |-> "render_pass", nth |-> 1, raii |-> FALSE],
       [call |-> "create_shader_module", kind |-> "shader_module", nth |-> 1, raii |-> TRUE],
       [call |-> "create_shader_module", kind |-> "shader_module", nth |-> 2, raii |-> TRUE],
       [call |-> "create_pipeline_layout", kind |-> "pipeline_layout", nth |-> 1,
        raii |-> FALSE],
       [call |-> "create_graphics_pipelines", kind |-> "pipeline", nth |-> 1,
        raii |-> FALSE] >>

\* A faulty builder whose shader modules are raw handles nobody destroys.
GraphicsPipelineNewKeepsModules ==
    /\ life = "starting"
    /\ owned # <<>>
    /\ owned[Len(owned)] = "swap_chain"
    /\ graphics_pipeline.state = "none"
    /\ LET run == Made(GraphicsPipelineCalls)
       IN  IF run.ok
           THEN /\ graphics_pipeline' = [state |-> "created"]
                /\ trace' = trace \o run.events
                /\ owned' = Append(owned, "graphics_pipeline")
                /\ UNCHANGED life
           ELSE /\ graphics_pipeline' = [state |-> "panicked"]
                /\ trace' = trace \o run.events
                /\ life' \in PanicStrategies
                /\ UNCHANGED owned
    /\ UNCHANGED <<failing_call, instance_version, instance, device,
                   create_logical_device_run, create_graphics_pipeline_run, command_pool>>
    /\ UNCHANGED outside_life

GraphicsPipelineNew ==
    /\ life = "starting"
    /\ owned # <<>>
    /\ owned[Len(owned)] = "swap_chain"
    /\ graphics_pipeline.state = "none"
    /\ LET run == Made(GraphicsPipelineCalls)
       IN  IF run.ok
           THEN /\ graphics_pipeline' = [state |-> "created"]
                /\ trace' = trace \o run.events \o DropLocals(run.made)
                /\ owned' = Append(owned, "graphics_pipeline")
                /\ UNCHANGED life
           ELSE /\ graphics_pipeline' = [state |-> "panicked"]
                /\ \E strategy \in PanicStrategies :
                      /\ life' = strategy
                      /\ trace' = trace \o run.events
                                  \o (IF strategy = "unwinding"
                                      THEN DropLocals(run.made) ELSE <<>>)
                /\ UNCHANGED owned
    /\ UNCHANGED <<failing_call, instance_version, instance, device,
                   create_logical_device_run, create_graphics_pipeline_run, command_pool>>
    /\ UNCHANGED outside_life

\* mod.rs: Renderer::create_graphics_pipeline.  Every handle is raw; the
\* two shader modules are destroyed by hand after the pipeline is created,
\* the vertex module first.
CreateGraphicsPipelineCalls ==
    << [call |-> "create_shader_module", kind |-> "shader_module", nth |-> 1, raii |-> FALSE],
       [call |-> "create_shader_module", kind |-> "shader_module", nth |-> 2, raii |-> FALSE],
       [call |-> "create_pipeline_layout", kind |-> "pipeline_layout", nth |-> 1,
        raii |-> FALSE],
       [call |-> "create_graphics_pipelines", kind |-> "pipeline", nth |-> 1,
        raii |-> FALSE] >>

CreateGraphicsPipeline ==
    /\ create_graphics_pipeline_run.state = "none"
    /\ LET run == Made(CreateGraphicsPipelineCalls)
       IN  create_graphics_pipeline_run' =
               IF run.ok
               THEN [state |-> "created",
                     events |-> run.events \o <<Destroy("shader_module", 1),
                                                Destroy("shader_module", 2)>>]
               ELSE [state |-> "panicked", events |-> run.events]
    /\ UNCHANGED <<failing_call, owned, trace, life, instance_version, instance, device,
                   create_logical_device_run, graphics_pipeline, command_pool>>
    /\ UNCHANGED outside_life

\* command_pool.rs: CommandPool::new
CommandPoolNew ==
    /\ life = "starting"
    /\ owned # <<>>
    /\ owned[Len(owned)] = "graphics_pipeline"
    /\ swap_chain.framebuffer_calls >= 1
    /\ IF Fails("create_command_pool", 1)
       THEN /\ command_pool' = [state |-> "panicked"]
            /\ trace' = Append(trace, Fail("command_pool", 1))
            /\ life' \in PanicStrategies
            /\ UNCHANGED owned
       ELSE /\ command_pool' =
                   [state |-> "created",
                    queue_family_index |->
                        unwrap(extract(snapshot.queue_family_properties).graphics_family)]
            /\ trace' = Append(trace, Create("command_pool", 1))
            /\ owned' = Append(owned, "command_pool")
            /\ UNCHANGED life
    /\ UNCHANGED <<failing_call, instance_version, instance, device,
                   create_logical_device_run, create_graphics_pipeline_run,
                   graphics_pipeline>>
    /\ UNCHANGED outside_life

\* command_pool.rs: CommandPool::allocate, the last step of the start-up:
\* the event loop runs from here on.
Allocate ==
    /\ life = "starting"
    /\ command_pool.state = "created"
    /\ IF Fails("allocate_command_buffers", 1)
       THEN /\ command_pool' = [command_pool EXCEPT !.state = "panicked"]
            /\ trace' = Append(trace, Fail("command_buffer", 1))
            /\ life' \in PanicStrategies
       ELSE /\ command_pool' = [command_pool EXCEPT !.state = "allocated"]
            /\ life' = "running"
            /\ UNCHANGED trace
    /\ UNCHANGED <<failing_call, owned, instance_version, instance, device,
                   create_logical_device_run, create_graphics_pipeline_run,
                   graphics_pipeline>>
    /\ UNCHANGED outside_life

\* The impl Drop of each wrapper: the objects it destroys, in order.
drop_events(wrapper) ==
    IF wrapper = "command_pool" THEN <<Destroy("command_pool", 1)>>
    ELSE IF wrapper = "graphics_pipeline"
    THEN <<Destroy("pipeline", 1), Destroy("pipeline_layout", 1), Destroy("render_pass", 1)>>
    ELSE IF wrapper = "swap_chain"
    THEN [i \in 1..Len(swap_chain.framebuffers) |->
             Destroy("framebuffer", swap_chain.framebuffers[i].handle)]
         \o [i \in 1..Len(swap_chain.image_views) |-> Destroy("image_view", i)]
         \o <<Destroy("swapchain", 1)>>
    ELSE <<Destroy(wrapper, 1)>>

\* The wrappers are dropped last built first: by the unwinding of a panic,
\* or when the renderer is dropped after the event loop has ended.
DropWrapper ==
    /\ owned # <<>>
    /\ life = "unwinding" \/ (life = "running" /\ event_loop = "done")
    /\ trace' = trace \o drop_events(owned[Len(owned)])
    /\ owned' = SubSeq(owned, 1, Len(owned) - 1)
    /\ UNCHANGED <<failing_call, life, life_objects>>
    /\ UNCHANGED outside_life

\* The driver calls that may fail in a run.
FailingCalls ==
    { [call |-> c, nth |-> 1] :
          c \in {"create_instance", "create_debug_utils_messenger", "create_surface",
                 "create_device", "create_swapchain",
                 "get_swapchain_images", "create_render_pass", "create_pipeline_layout",
                 "create_graphics_pipelines", "create_command_pool",
                 "allocate_command_buffers"} }
    \cup { [call |-> "create_shader_module", nth |-> k] : k \in 1..2 }
    \cup { [call |-> "create_image_view", nth |-> k] : k \in 1..MaxImages }
    \cup { [call |-> "create_framebuffer", nth |-> k] : k \in 1..(MaxImages * MaxCalls) }
    \cup { [call |-> c, nth |-> k] :
              c \in {"acquire_next_image", "queue_submit", "queue_present"},
              k \in 1..MaxFrames }

\* Nothing is built yet.
NothingBuilt ==
    /\ owned = <<>>
    /\ trace = <<>>
    /\ life = "starting"
    /\ instance = NotBuilt
    /\ device = NotBuilt
    /\ create_logical_device_run = NotBuilt
    /\ create_graphics_pipeline_run = NotBuilt
    /\ graphics_pipeline = NotBuilt
    /\ command_pool = NotBuilt

\* The start-up is over and not followed: the event loop runs.
Started ==
    /\ failing_call = NoFailure
    /\ instance_version = Some(u32_from(INSTANCE_API_VERSION))
    /\ owned = <<>>
    /\ trace = <<>>
    /\ life = "running"
    /\ instance = NotBuilt
    /\ device = NotBuilt
    /\ create_logical_device_run = NotBuilt
    /\ create_graphics_pipeline_run = NotBuilt
    /\ graphics_pipeline = NotBuilt
    /\ command_pool = NotBuilt

\* The driver calls of the constructors that run before Device::new.
BeforeDevice(call) ==
    call \in {"create_instance", "create_debug_utils_messenger", "create_surface"}

\* The instance and the surface exist and an adapter is selected: the
\* device is built next.  No call made so far has failed.
SurfaceBuilt ==
    /\ instance_version = Some(u32_from(INSTANCE_API_VERSION))
    /\ owned = <<"instance", "surface">>
    /\ trace = <<Create("instance", 1), Create("surface", 1)>>
    /\ life = "starting"
    /\ instance = NotBuilt
    /\ device = NotBuilt
    /\ create_logical_device_run = NotBuilt
    /\ create_graphics_pipeline_run = NotBuilt
    /\ graphics_pipeline = NotBuilt
    /\ command_pool = NotBuilt

\* The instance, the surface and the device exist: the chain is built next.
DeviceBuilt ==
    /\ failing_call = NoFailure
    /\ instance_version = Some(u32_from(INSTANCE_API_VERSION))
    /\ owned = <<"instance", "surface", "device">>
    /\ trace = <<Create("instance", 1), Create("surface", 1), Create("device", 1)>>
    /\ life = "starting"
    /\ instance = NotBuilt
    /\ device = NotBuilt
    /\ create_logical_device_run = NotBuilt
    /\ create_graphics_pipeline_run = NotBuilt
    /\ graphics_pipeline = NotBuilt
    /\ command_pool = NotBuilt

\* No chain built: the snapshot is the default one.
NoChain ==
    /\ snapshot = DefaultSnapshot
    /\ swap_chain = NoSwapChain
    /\ create_swap_chain_run = NoSwapChain
    /\ format_calls = <<>>

\* No selector run: the Frame Driver is studied on its own.
NoSelector ==
    /\ physical_devices = <<>>
    /\ optional_extensions = <<>>
    /\ ratings = <<>>
    /\ utils_run = Pending
    /\ pick_run = Pending

(***************************************************************************)
(* The specifications: the Device Selector over every adapter list; the    *)
(* Frame Driver with the GPU and the presentation engine; the Presentation *)
(* Chain Builder over every snapshot; the Frame Driver followed by the end *)
(* of the event loop and the teardown; the logical device and its objects; *)
(* the version check; the whole life of the renderer.                      *)
(***************************************************************************)
Init == InitSelector /\ InitFrame /\ NoChain /\ InitTeardown /\ Started

Spec == Init /\ [][NextSelector]_vars

InitFrameOnly == NoSelector /\ InitFrame /\ NoChain /\ InitTeardown /\ Started

SpecFrame == InitFrameOnly /\ [][NextFrame]_vars

InitChainOnly == NoSelector /\ InitFrame /\ InitChain /\ InitTeardown /\ DeviceBuilt

NextChain ==
    \/ SwapChainNew
    \/ GraphicsPipelineNew
    \/ CreateFramebuffers
    \/ CreateSwapChain
    \/ ChooseFormat

SpecChain == InitChainOnly /\ [][NextChain]_vars

InitTeardownOnly == NoSelector /\ InitFrame /\ NoChain /\ InitTeardown /\ Started

SpecTeardown == InitTeardownOnly /\ [][NextTeardown]_vars

\* The logical device and the objects made from it, in both revisions, over
\* the queue families of the adapter and the driver call that fails, if any.
InitDevice ==
    /\ NoSelector /\ InitFrame /\ InitTeardown /\ SurfaceBuilt
    /\ snapshot \in FamilySnapshots
    /\ swap_chain = NoSwapChain
    /\ create_swap_chain_run = NoSwapChain
    /\ format_calls = <<>>
    /\ failing_call \in {f \in FailingCalls : ~BeforeDevice(f.call)} \cup {NoFailure}

NextDevice ==
    \/ DeviceNew
    \/ SwapChainNew
    \/ CreateSwapChain
    \/ GraphicsPipelineNew
    \/ CreateFramebuffers
    \/ CreateLogicalDevice
    \/ CreateGraphicsPipeline

SpecDevice == InitDevice /\ [][NextDevice]_vars

\* The version check of Instance::new over the versions a loader may report.
InitInstance ==
    /\ NoSelector /\ InitFrame /\ NoChain /\ InitTeardown /\ NothingBuilt
    /\ failing_call = NoFailure
    /\ instance_version \in {None} \cup {Some(version) : version \in InstanceVersions}

NextInstance == InstanceNew

SpecInstance == InitInstance /\ [][NextInstance]_vars

\* The whole life of the renderer: the start-up, the frames, the end of the
\* event loop and the destructors, with the driver call that fails, if any.
InitLife ==
    /\ NoSelector /\ InitFrame /\ InitTeardown /\ NothingBuilt
    /\ instance_version = Some(u32_from(INSTANCE_API_VERSION))
    /\ swap_chain = NoSwapChain
    /\ create_swap_chain_run = NoSwapChain
    /\ format_calls = <<>>
    /\ snapshot = DefaultSnapshot
    /\ failing_call \in FailingCalls \cup {NoFailure}

NextLife ==
    \/ MainEventsCleared
    \/ RedrawRequestedOfOtherWindow
    \/ InstanceNew
    \/ DebugMessengerNew
    \/ SurfaceNew
    \/ DeviceNew
    \/ SwapChainNew
    \/ GraphicsPipelineNew
    \/ CreateFramebuffers
    \/ CommandPoolNew
    \/ Allocate
    \/ RedrawRequested
    \/ DrawFrame
    \/ GpuAndEngine
    \/ Teardown
    \/ DropWrapper

SpecLife == InitLife /\ [][NextLife]_vars

(***************************************************************************)
(* Vocabulary of the properties, stated on the adapter as the driver       *)
(* reports it.  Device(i) is the adapter at 0-based position i.            *)
(***************************************************************************)
Device(i) == physical_devices[i + 1]

Positions == 0..(Len(physical_devices) - 1)

HasGraphicsFamily(d) ==
    \E k \in 1..Len(d.queue_family_properties) :
        "GRAPHICS" \in d.queue_family_properties[k].queue_flags

HasPresentFamily(d) ==
    \E k \in 1..Len(d.queue_family_properties) :
        d.queue_family_properties[k].surface_support

MissingMandatoryExtension(d) == VK_KHR_SWAPCHAIN \notin d.extensions

EmptySurfaceList(d) ==
    \/ Len(d.swap_chain_support_details.formats) = 0
    \/ Len(d.swap_chain_support_details.present_modes) = 0

ApiBelowMinimum(d) == u32_lt(d.properties.api_version, make_api_version(0, 1, 2, 0))

IsDiscrete(d) == d.properties.device_type = "DISCRETE_GPU"

UtilsDone == utils_run.state \in {"ok", "panic"}
PickDone == pick_run.state \in {"ok", "panic"}

RejectedByUtils(i) == utils_run.log[i + 1].rejected
RejectedByPick(i) == is_none(pick_run.rated[i + 1].result)

UtilsSurvivors == {i \in Positions : ~RejectedByUtils(i)}
PickSurvivors == {i \in Positions : ~RejectedByPick(i)}

UtilsScore(i) == utils_run.log[i + 1].score
PickScore(i) == unwrap(pick_run.rated[i + 1].result)

\* C1: neither selector ever returns an adapter that has no graphics-capable
\* queue family or no queue family able to present to the surface.
C1_SelectedHasBothQueueFamilies ==
    /\ utils_run.state = "ok" =>
           /\ HasGraphicsFamily(Device(utils_run.selected))
           /\ HasPresentFamily(Device(utils_run.selected))
    /\ pick_run.state = "ok" =>
           /\ HasGraphicsFamily(Device(pick_run.selected))
           /\ HasPresentFamily(Device(pick_run.selected))

\* C1 witness: both selectors returned an adapter from a list that also
\* holds an adapter with a graphics family but no presentation family.
C1_Witness ==
    /\ utils_run.state = "ok"
    /\ pick_run.state = "ok"
    /\ \E i \in Positions : HasGraphicsFamily(Device(i)) /\ ~HasPresentFamily(Device(i))

\* The rejection causes (a)-(e) of the Device Selector's description.
RejectionCause(d) ==
    \/ ~HasGraphicsFamily(d)
    \/ ~HasPresentFamily(d)
    \/ MissingMandatoryExtension(d)
    \/ EmptySurfaceList(d)
    \/ ApiBelowMinimum(d)

\* C2 as stated: a candidate is rejected if and only if one of (a)-(e) holds.
C2_RejectedIffCauseAtoE ==
    /\ UtilsDone => \A i \in Positions : RejectedByUtils(i) <=> RejectionCause(Device(i))
    /\ PickDone => \A i \in Positions : RejectedByPick(i) <=> RejectionCause(Device(i))

\* C3 as stated: selection aborts exactly when no candidate survives the
\* rejection rules, and otherwise returns one of the survivors.
C3_AbortsIffNoSurvivor ==
    /\ UtilsDone =>
           /\ utils_run.state = "panic" <=> UtilsSurvivors = {}
           /\ utils_run.state = "ok" => utils_run.selected \in UtilsSurvivors
    /\ PickDone =>
           /\ pick_run.state = "panic" <=> PickSurvivors = {}
           /\ pick_run.state = "ok" => pick_run.selected \in PickSurvivors

MaxOf(S) == CHOOSE m \in S : \A x \in S : x <= m
MinOf(S) == CHOOSE m \in S : \A x \in S : m <= x

\* C4 as stated: the selected adapter has the highest score among the
\* survivors, and of several with the highest score it is the first.
C4_HighestScoreFirstOnTie ==
    /\ utils_run.state = "ok" =>
           LET top == MaxOf({UtilsScore(i) : i \in UtilsSurvivors})
           IN  utils_run.selected = MinOf({i \in UtilsSurvivors : UtilsScore(i) = top})
    /\ pick_run.state = "ok" =>
           LET top == MaxOf({PickScore(i) : i \in PickSurvivors})
           IN  pick_run.selected = MinOf({i \in PickSurvivors : PickScore(i) = top})

\* Two adapters support the same optional extensions of a list.
SameOptionalSupport(d1, d2, optional) ==
    \A k \in 1..Len(optional) : optional[k] \in d1.extensions <=> optional[k] \in d2.extensions

\* C5: of two eligible adapters with the same optional-extension support,
\* one discrete and one not, the discrete one scores strictly higher, the
\* other one is not selected, and when these two are the only eligible
\* adapters the discrete one is selected, whatever their order.
C5_DiscreteBeatsNonDiscrete ==
    /\ UtilsDone =>
           \A i, j \in UtilsSurvivors :
               ( /\ IsDiscrete(Device(i)) /\ ~IsDiscrete(Device(j))
                 /\ SameOptionalSupport(Device(i), Device(j), optional_extensions) )
               => /\ UtilsScore(i) > UtilsScore(j)
                  /\ utils_run.state = "ok"
                  /\ utils_run.selected # j
                  /\ UtilsSurvivors = {i, j} => utils_run.selected = i
    /\ PickDone =>
           \A i, j \in PickSurvivors :
               ( /\ IsDiscrete(Device(i)) /\ ~IsDiscrete(Device(j))
                 /\ SameOptionalSupport(Device(i), Device(j),
                                        PHYSICAL_DEVICE_OPTIONAL_EXTENSION_NAMES) )
               => /\ PickScore(i) > PickScore(j)
                  /\ pick_run.state = "ok"
                  /\ pick_run.selected # j
                  /\ PickSurvivors = {i, j} => pick_run.selected = i

\* C5 witness: the list is (integrated, discrete), both eligible and with
\* the same extensions, and both selectors returned the discrete one.
C5_Witness ==
    /\ Len(physical_devices) = 2
    /\ UtilsDone /\ PickDone
    /\ UtilsSurvivors = {0, 1} /\ PickSurvivors = {0, 1}
    /\ Device(0).properties.device_type = "INTEGRATED_GPU"
    /\ IsDiscrete(Device(1))
    /\ Device(0).extensions = Device(1).extensions
    /\ OptA \in Device(0).extensions /\ contains(optional_extensions, OptA)
    /\ utils_run.selected = 1
    /\ pick_run.selected = 1

\* C6: for an adapter missing a mandatory extension neither selector
\* reaches the score computation.
C6_NoScoreWithoutMandatoryExtension ==
    /\ UtilsDone =>
           \A i \in Positions :
               MissingMandatoryExtension(Device(i)) =>
                   /\ ~utils_run.log[i + 1].scored
                   /\ RejectedByUtils(i)
    /\ PickDone =>
           \A i \in Positions :
               MissingMandatoryExtension(Device(i)) =>
                   /\ ~pick_run.rated[i + 1].scored
                   /\ RejectedByPick(i)

\* C6 witness: both selectors ran over a list holding a discrete adapter
\* that has everything but the mandatory extension, and an adapter that
\* was scored.
C6_Witness ==
    /\ UtilsDone /\ PickDone
    /\ \E i \in Positions :
           /\ MissingMandatoryExtension(Device(i))
           /\ IsDiscrete(Device(i))
           /\ HasGraphicsFamily(Device(i)) /\ HasPresentFamily(Device(i))
    /\ \E j \in Positions : utils_run.log[j + 1].scored /\ pick_run.rated[j + 1].scored

RECURSIVE SumOver(_, _)
SumOver(S, w) ==
    IF S = {} THEN 0
    ELSE LET k == CHOOSE x \in S : TRUE IN w[k] + SumOver(S \ {k}, w)

\* The score as C7 gives it: the discrete bonus plus the weights of the
\* supported optional extensions of the rating table.
StatedScore(d) ==
    (IF IsDiscrete(d) THEN 1000 ELSE 0)
    + SumOver({k \in 1..Len(optional_extensions) : optional_extensions[k] \in d.extensions},
              ratings)

\* C7 as stated: every survivor's score is the discrete bonus plus the
\* weights of its supported optional extensions, and nothing else.
C7_ScoreIsBonusPlusWeights ==
    /\ UtilsDone => \A i \in UtilsSurvivors : UtilsScore(i) = StatedScore(Device(i))
    /\ PickDone => \A i \in PickSurvivors : PickScore(i) = StatedScore(Device(i))

ClassBonus ==
    [t \in DeviceTypes |->
        IF t = "DISCRETE_GPU" THEN 1000
        ELSE IF t \in {"INTEGRATED_GPU", "VIRTUAL_GPU"} THEN 500
        ELSE IF t = "OTHER" THEN 300 ELSE 0]

\* C7 amended: in utils::pick_most_suitable_physical_device the score is the
\* discrete bonus plus the weights of the supported optional extensions; in
\* PhysicalDevice::rate the score is the bonus of the device class alone
\* (discrete 1000, integrated 500, virtual 500, other 300, else 0) and
\* optional extensions add nothing.
C7_ScorePerSelector ==
    /\ UtilsDone => \A i \in UtilsSurvivors : UtilsScore(i) = StatedScore(Device(i))
    /\ PickDone =>
           \A i \in PickSurvivors : PickScore(i) = ClassBonus[Device(i).properties.device_type]

\* C7 witness: both selectors scored an integrated adapter supporting both
\* rated optional extensions (30 in utils.rs, 500 in rate) and a discrete
\* adapter supporting one of them (1010 in utils.rs, 1000 in rate).
C7_Witness ==
    /\ UtilsDone /\ PickDone
    /\ \E i \in UtilsSurvivors \cap PickSurvivors :
           /\ Device(i).properties.device_type = "INTEGRATED_GPU"
           /\ UtilsScore(i) = 30
           /\ PickScore(i) = 500
    /\ \E j \in UtilsSurvivors \cap PickSurvivors :
           /\ IsDiscrete(Device(j))
           /\ UtilsScore(j) = 1010
           /\ PickScore(j) = 1000

\* The order of the steps of one draw_frame call.
FrameSteps ==
    <<"wait_fence", "reset_fence", "acquire", "record", "submit", "present">>

\* The order of the Frame Driver states over one call.
FrameStates ==
    <<"Idle", "Acquiring", "Recording", "Submitted", "Presenting", "Idle">>

IsPrefix(a, b) == Len(a) <= Len(b) /\ \A k \in 1..Len(a) : a[k] = b[k]

StepNumber(step) == CHOOSE k \in 1..Len(FrameSteps) : FrameSteps[k] = step

\* C8: in every draw_frame call the steps wait_fence, reset_fence, acquire,
\* record, submit, present happen in this order with none skipped, and the
\* driver passes Idle, Acquiring, Recording, Submitted, Presenting and is
\* Idle again when the call has returned.
C8_StepsInOrder ==
    /\ IsPrefix(steps, FrameSteps)
    /\ IsPrefix(visited, FrameStates)
    /\ \A k \in 1..Len(FrameSteps) : pc = FrameSteps[k] => Len(steps) = k - 1
    /\ pc = "return" => steps = FrameSteps
    /\ (pc = "Idle" /\ frames > 0) => steps = FrameSteps /\ visited = FrameStates
    /\ pc = "Idle" => frame_state = "Idle"
    /\ visited # <<>> => frame_state = visited[Len(visited)]

\* C8 witness: two calls have returned, each after all six steps.
C8_Witness ==
    /\ pc = "Idle"
    /\ frames = 2
    /\ steps = FrameSteps
    /\ visited = FrameStates

\* C9: at most one submission is in flight, and the single command buffer
\* is not being executed by the GPU when the CPU resets and re-records it,
\* nor between the re-recording and the next submission.
C9_OneFrameInFlight ==
    /\ Len(gpu) <= 1
    /\ pc \in {"record", "submit"} => gpu = <<>> /\ command_buffer.status # "pending"

\* C9 witness: the second call is about to re-record the command buffer
\* that the first call submitted, after the GPU has completed it.
C9_Witness ==
    /\ pc = "record"
    /\ frames >= 1
    /\ command_buffer.status = "executable"
    /\ command_buffer.image # -1
    /\ gpu = <<>>

\* C10: the GPU does not start on the colour attachment of the acquired
\* image (the render pass's layout transition to the colour-attachment
\* layout, then the colour output) before the image-available signal for
\* that image has been given, and a present request can pass its wait
\* only when the rendering of its image is finished.
C10_SemaphoresOrderGpuAndPresent ==
    /\ \A k \in 1..Len(gpu) :
           (gpu[k].transitioned \/ gpu[k].output) => images[gpu[k].image].released
    /\ (present_queue # <<>> /\ render_finished) => images[Head(present_queue)].rendered

\* C10 witness: in the second call the GPU is writing the acquired image
\* after its release, while the present of an image is ready to execute.
C10_Witness ==
    /\ frames >= 1
    /\ gpu # <<>>
    /\ Head(gpu).output
    /\ images[Head(gpu).image].released
    /\ \E i \in ImageIds : images[i].rendered /\ images[i].owner = "engine"

(***************************************************************************)
(* Shutdown and teardown.                                                  *)
(***************************************************************************)
Position(seq, x) == CHOOSE i \in 1..Len(seq) : seq[i] = x

Destroyed(x) == \E i \in 1..Len(destroyed) : destroyed[i] = x

\* C11: at shutdown no owned object (pipeline, render pass, swapchain,
\* view, device, ...) is destroyed before the device has been waited on
\* until it reports idle: whenever an object has been destroyed, the wait
\* has returned and the GPU holds no uncompleted submission.
C11_NoDestroyBeforeDeviceIdle ==
    destroyed # <<>> => (device_idle /\ gpu = <<>>)

\* C11 witness: frames were drawn, the loop ended, the device was waited
\* on and the objects are destroyed.
C11_Witness ==
    /\ event_loop = "done"
    /\ frames >= 2
    /\ device_idle
    /\ Destroyed("graphics_pipeline") /\ Destroyed("swap_chain") /\ Destroyed("device")

DeviceOwned ==
    {"image_views", "graphics_pipeline", "pipeline_layout", "render_pass", "swap_chain"}

\* C12: teardown destroys the objects in the reverse of their creation
\* order: every device-owned object (pipeline, render pass, swapchain,
\* views) first, then the logical device, then the surface, then the
\* instance.
C12_TeardownReversesCreation ==
    event_loop = "done" =>
        /\ \A o \in DeviceOwned : Position(destroyed, o) < Position(destroyed, "device")
        /\ Position(destroyed, "device") < Position(destroyed, "surface")
        /\ Position(destroyed, "surface") < Position(destroyed, "instance")

(***************************************************************************)
(* The Presentation Chain Builder.  NewCount and OldCount are the image    *)
(* counts the two revisions hand to the driver (min_image_count of the     *)
(* create info).                                                           *)
(***************************************************************************)
NewBuilt == swap_chain.state = "created"
OldBuilt == create_swap_chain_run.state = "created"

NewCount == swap_chain.create_info.min_image_count
OldCount == create_swap_chain_run.create_info.min_image_count

MinImageCount == snapshot.capabilities.min_image_count
MaxImageCountReported == snapshot.capabilities.max_image_count

\* C13: for every surface capability snapshot the requested image count
\* never exceeds max_image_count when max_image_count is nonzero.
C13_CountNeverAboveMax ==
    MaxImageCountReported # 0 =>
        /\ NewBuilt => NewCount <= MaxImageCountReported
        /\ OldBuilt => OldCount <= MaxImageCountReported

\* C14 as stated: for every surface capability snapshot the requested
\* image count is never below min_image_count + 1.
C14_CountNeverBelowMinPlusOne ==
    /\ NewBuilt => NewCount >= MinImageCount + 1
    /\ OldBuilt => OldCount >= MinImageCount + 1

\* C14 as the code has it: the count SwapChain::new requests is at least
\* min_image_count + 1 unless a nonzero max_image_count lies below that,
\* and then it is max_image_count; the count of choose_image_count is
\* never below min_image_count + 1.
C14_CountBelowMinPlusOneOnlyWhenCapped ==
    /\ NewBuilt =>
          IF MaxImageCountReported # 0 /\ MaxImageCountReported < MinImageCount + 1
          THEN NewCount = MaxImageCountReported
          ELSE NewCount >= MinImageCount + 1
    /\ OldBuilt => OldCount >= MinImageCount + 1

\* C14 witness: a snapshot whose max_image_count equals its
\* min_image_count, both revisions having built their chain.
C14_Witness ==
    /\ NewBuilt /\ OldBuilt
    /\ MaxImageCountReported = MinImageCount
    /\ MinImageCount >= 2
    /\ NewCount = MinImageCount

StatedCount ==
    IF MaxImageCountReported = 0 \/ MaxImageCountReported >= MinImageCount + 1
    THEN MinImageCount + 1
    ELSE MaxImageCountReported

\* C15: the requested image count equals min_image_count + 1 when
\* max_image_count is 0 or at least min_image_count + 1, and equals
\* max_image_count when that is nonzero and smaller than
\* min_image_count + 1; min 1 with max 0 gives 2.
C15_CountIsMinPlusOneClampedToMax ==
    /\ NewBuilt => NewCount = StatedCount
    /\ OldBuilt => OldCount = StatedCount
    /\ (MinImageCount = 1 /\ MaxImageCountReported = 0) =>
          /\ NewBuilt => NewCount = 2
          /\ OldBuilt => OldCount = 2

StatedExtent ==
    LET cap == snapshot.capabilities
        size == snapshot.inner_size
    IN  IF cap.current_extent.width = U32_MAX
        THEN [width |-> IF size.width < cap.min_image_extent.width
                        THEN cap.min_image_extent.width
                        ELSE IF size.width > cap.max_image_extent.width
                             THEN cap.max_image_extent.width
                             ELSE size.width,
              height |-> IF size.height < cap.min_image_extent.height
                         THEN cap.min_image_extent.height
                         ELSE IF size.height > cap.max_image_extent.height
                              THEN cap.max_image_extent.height
                              ELSE size.height]
        ELSE cap.current_extent

\* C16: when current_extent.width is the u32::MAX sentinel the chosen
\* extent is the window pixel size clamped component-wise into
\* [min_extent, max_extent] (the window size when within bounds, the
\* nearest bound for a component outside); otherwise it is the
\* capability's current extent unchanged.
C16_ExtentIsClampedWindowOrCurrent ==
    /\ NewBuilt => /\ swap_chain.extent = StatedExtent
                   /\ swap_chain.create_info.image_extent = StatedExtent
    /\ OldBuilt => /\ create_swap_chain_run.extent = StatedExtent
                   /\ create_swap_chain_run.create_info.image_extent = StatedExtent

\* C16 witness: the sentinel is reported, the window is wider than the
\* maximum and lower than the minimum, and both chains took the bounds.
C16_Witness ==
    /\ NewBuilt /\ OldBuilt
    /\ snapshot.capabilities.current_extent.width = U32_MAX
    /\ snapshot.inner_size.width > snapshot.capabilities.max_image_extent.width
    /\ snapshot.inner_size.height < snapshot.capabilities.min_image_extent.height
    /\ snapshot.capabilities.max_image_extent.width < snapshot.capabilities.max_image_extent.height
    /\ swap_chain.extent = Extent2D(snapshot.capabilities.max_image_extent.width,
                                    snapshot.capabilities.min_image_extent.height)

StatedFormat ==
    IF \E i \in 1..Len(snapshot.formats) : snapshot.formats[i] = Bgra
    THEN Bgra
    ELSE snapshot.formats[1]

\* C17: format selection is a deterministic function of the format list:
\* for a non-empty list every call returns the same format, the
\* (B8G8R8A8 sRGB, sRGB-nonlinear) entry when the list has it and the
\* first entry otherwise.
C17_FormatIsPreferredOrFirst ==
    /\ \A k \in 1..Len(format_calls) : format_calls[k] = StatedFormat
    /\ NewBuilt => swap_chain.surface_format = StatedFormat
    /\ OldBuilt => /\ create_swap_chain_run.create_info.image_format = StatedFormat.format
                   /\ create_swap_chain_run.create_info.image_color_space
                          = StatedFormat.color_space

\* C17 witness: the preferred pair is second in the list, behind an entry
\* of the same format in another colour space, and repeated calls were made.
C17_Witness ==
    /\ Len(format_calls) = MaxCalls
    /\ NewBuilt /\ OldBuilt
    /\ Len(snapshot.formats) = 2
    /\ snapshot.formats[1].format = "B8G8R8A8_SRGB"
    /\ snapshot.formats[1] # Bgra
    /\ snapshot.formats[2] = Bgra
    /\ format_calls[1] = Bgra

StatedPresentMode ==
    IF \E i \in 1..Len(snapshot.present_modes) : snapshot.present_modes[i] = "MAILBOX"
    THEN "MAILBOX"
    ELSE "FIFO"

\* C18: present-mode selection returns mailbox exactly when the supported
\* list contains it, and first-in-first-out in every other case.
C18_PresentModeIsMailboxOrFifo ==
    /\ NewBuilt => /\ swap_chain.present_mode = StatedPresentMode
                   /\ swap_chain.create_info.present_mode = StatedPresentMode
    /\ OldBuilt => create_swap_chain_run.create_info.present_mode = StatedPresentMode

\* C18 witness: mailbox is listed behind first-in-first-out and is chosen.
C18_Witness ==
    /\ NewBuilt /\ OldBuilt
    /\ snapshot.present_modes = <<"FIFO", "MAILBOX">>
    /\ swap_chain.present_mode = "MAILBOX"

\* The 0-based index of the first queue family that satisfies P.
FirstFamily(P(_)) ==
    LET S == {i \in 1..Len(snapshot.queue_family_properties) :
                 P(snapshot.queue_family_properties[i])}
    IN  (CHOOSE i \in S : \A j \in S : i <= j) - 1

IsGraphics(property) == "GRAPHICS" \in property.queue_flags
CanPresent(property) == property.surface_support

GraphicsFamilyIndex == FirstFamily(IsGraphics)
PresentFamilyIndex == FirstFamily(CanPresent)

StatedSharing ==
    IF GraphicsFamilyIndex = PresentFamilyIndex
    THEN [mode |-> "EXCLUSIVE", indices |-> {}]
    ELSE [mode |-> "CONCURRENT", indices |-> {GraphicsFamilyIndex, PresentFamilyIndex}]

Listed(info) == {info.queue_family_indices[i] : i \in 1..Len(info.queue_family_indices)}

\* C19: the swapchain declares exclusive sharing when the graphics and
\* presentation queue family indices are equal, and concurrent sharing
\* listing exactly both family indices when they differ.
C19_SharingFollowsFamilies ==
    /\ NewBuilt =>
          /\ swap_chain.create_info.image_sharing_mode = StatedSharing.mode
          /\ StatedSharing.mode = "CONCURRENT" =>
                /\ Listed(swap_chain.create_info) = StatedSharing.indices
                /\ Len(swap_chain.create_info.queue_family_indices) = 2
    /\ OldBuilt =>
          /\ create_swap_chain_run.create_info.image_sharing_mode = StatedSharing.mode
          /\ StatedSharing.mode = "CONCURRENT" =>
                /\ Listed(create_swap_chain_run.create_info) = StatedSharing.indices
                /\ Len(create_swap_chain_run.create_info.queue_family_indices) = 2

\* C19 witness: presentation is on family 0 and graphics on family 1, and
\* both chains are concurrent over the two.
C19_Witness ==
    /\ NewBuilt /\ OldBuilt
    /\ GraphicsFamilyIndex = 1
    /\ PresentFamilyIndex = 0
    /\ swap_chain.create_info.image_sharing_mode = "CONCURRENT"
    /\ swap_chain.create_info.queue_family_indices = <<1, 0>>

\* C20 as stated: from the moment SwapChain::new returns, and after any
\* number of create_framebuffers calls, the number of framebuffers equals
\* the number of image views equals the number of swapchain images.
C20_CountsEqualFromNew ==
    NewBuilt =>
        /\ Len(swap_chain.framebuffers) = Len(swap_chain.image_views)
        /\ Len(swap_chain.image_views) = Len(swap_chain.images)

\* C20 as the code has it: from the moment SwapChain::new returns there
\* is one image view per swapchain image; there is no framebuffer until
\* the first create_framebuffers call, and after any number of calls
\* there is one framebuffer per image view, bound to that view.
C20_CountsEqualAfterCreateFramebuffers ==
    NewBuilt =>
        /\ Len(swap_chain.image_views) = Len(swap_chain.images)
        /\ \A i \in 1..Len(swap_chain.images) :
              swap_chain.image_views[i].image = swap_chain.images[i]
        /\ swap_chain.framebuffer_calls = 0 => swap_chain.framebuffers = <<>>
        /\ swap_chain.framebuffer_calls >= 1 =>
              /\ Len(swap_chain.framebuffers) = Len(swap_chain.image_views)
              /\ \A i \in 1..Len(swap_chain.framebuffers) :
                    swap_chain.framebuffers[i].attachments = <<swap_chain.image_views[i]>>

\* C20 witness: the driver made more images than requested and
\* create_framebuffers ran twice.
C20_Witness ==
    /\ NewBuilt
    /\ swap_chain.framebuffer_calls = 2
    /\ Len(swap_chain.images) > swap_chain.create_info.min_image_count
    /\ Len(swap_chain.framebuffers) = Len(swap_chain.images)

(***************************************************************************)
(* Failures, releases and the event loop.                                  *)
(***************************************************************************)
\* The driver call that creates an object of a kind, or makes a frame step.
CallOf(kind) ==
    IF kind = "instance" THEN "create_instance"
    ELSE IF kind = "debug_messenger" THEN "create_debug_utils_messenger"
    ELSE IF kind = "surface" THEN "create_surface"
    ELSE IF kind = "device" THEN "create_device"
    ELSE IF kind = "swapchain" THEN "create_swapchain"
    ELSE IF kind = "images" THEN "get_swapchain_images"
    ELSE IF kind = "image_view" THEN "create_image_view"
    ELSE IF kind = "render_pass" THEN "create_render_pass"
    ELSE IF kind = "shader_module" THEN "create_shader_module"
    ELSE IF kind = "pipeline_layout" THEN "create_pipeline_layout"
    ELSE IF kind = "pipeline" THEN "create_graphics_pipelines"
    ELSE IF kind = "framebuffer" THEN "create_framebuffer"
    ELSE IF kind = "command_pool" THEN "create_command_pool"
    ELSE IF kind = "command_buffer" THEN "allocate_command_buffers"
    ELSE kind

FrameCalls == {"acquire_next_image", "queue_submit", "queue_present"}

\* The positions of the trace at which a call failed.
Failures == {k \in 1..Len(trace) : trace[k].op = "fail"}

\* C21: every failure of a creation call (instance, surface, device,
\* swapchain, view, framebuffer, pipeline, command pool) or of a frame step
\* (acquire, submit, present) aborts the program at that call: the program
\* is panicking from then on, nothing is created and no step runs after the
\* failure (only destructors do), the failed call is made once, and the call
\* that fails never counts as done.
C21_FailureAbortsAtTheCall ==
    /\ \A k \in Failures :
          /\ life \in PanicStrategies
          /\ \A j \in (k + 1)..Len(trace) : trace[j].op = "destroy"
          /\ \A j \in 1..Len(trace) : trace[j].object = trace[k].object => j = k
          /\ life = "aborted" => k = Len(trace)
          /\ Fails(CallOf(trace[k].object.kind), trace[k].object.id)
          /\ pc \in {"Idle", "panicked"}
          /\ trace[k].object.kind \in FrameCalls =>
                 pc = "panicked" /\ frames = trace[k].object.id - 1
          /\ event_loop \in {"running", "exit"}
          /\ loop_calls.shutdown = 0
    /\ \A j \in 1..Len(trace) :
          trace[j].op = "create" => ~Fails(CallOf(trace[j].object.kind), trace[j].object.id)
    /\ failing_call.call \in FrameCalls => frames < failing_call.nth

\* C21 witness: the second present of a run failed after a full start-up
\* and a first frame, and the panic has unwound every wrapper.
C21_Witness ==
    /\ \E k \in Failures : trace[k] = Fail("queue_present", 2)
    /\ frames = 1
    /\ life = "unwinding"
    /\ owned = <<>>
    /\ \E j \in 1..Len(trace) : trace[j] = Create("command_pool", 1)

\* The objects made from the logical device.
DeviceLevelKinds ==
    {"shader_module", "pipeline_layout", "render_pass", "pipeline", "image_view",
     "framebuffer", "swapchain", "command_pool"}

Releases(object) == {k \in 1..Len(trace) : trace[k] = [op |-> "destroy", object |-> object]}

\* C22: every device-level object created is released exactly once before
\* the logical device is destroyed, on every exit path.
C22_ReleasedOnceBeforeTheDevice ==
    /\ \A j \in 1..Len(trace) : Cardinality(Releases(trace[j].object)) <= 1
    /\ \A d \in 1..Len(trace) :
          trace[d] = Destroy("device", 1) =>
              \A j \in 1..Len(trace) :
                  trace[j].op = "create" /\ trace[j].object.kind \in DeviceLevelKinds =>
                      \E k \in Releases(trace[j].object) : j < k /\ k < d

\* C23: for every adapter descriptor the Device Selector returns both queue
\* family indices are present, so the unwraps of Device::new, SwapChain::new
\* and CommandPool::new do not fail; the old selector returns only adapters
\* whose indices has_required accepts.
C23_ReturnedDescriptorHasBothFamilies ==
    /\ pick_run.state = "ok" =>
          /\ is_some(pick_run.descriptor)
          /\ is_some(unwrap(pick_run.descriptor).queue_family_indices.graphics_family)
          /\ is_some(unwrap(pick_run.descriptor).queue_family_indices.present_family)
          /\ unwrap(unwrap(pick_run.descriptor).queue_family_indices.graphics_family)
                 \in 0..(Len(unwrap(pick_run.descriptor).queue_family_properties) - 1)
          /\ unwrap(unwrap(pick_run.descriptor).queue_family_indices.present_family)
                 \in 0..(Len(unwrap(pick_run.descriptor).queue_family_properties) - 1)
    /\ utils_run.state = "ok" =>
          has_required(find_queue_families(
              physical_devices[utils_run.selected + 1].queue_family_properties))

\* C23 witness: the selector passed over an adapter without a presentation
\* family and returned one whose two families differ.
C23_Witness ==
    /\ pick_run.state = "ok"
    /\ \E i \in 1..Len(physical_devices) :
          is_none(extract(physical_devices[i].queue_family_properties).present_family)
    /\ unwrap(pick_run.descriptor).queue_family_indices.graphics_family
           # unwrap(pick_run.descriptor).queue_family_indices.present_family

\* C24: the event loop calls draw_frame exactly once per redraw-request
\* event of its window (and for no other event), calls shutdown exactly
\* once, when the loop is destroyed after a close request, and never calls
\* draw_frame after shutdown.
C24_DrawPerRedrawShutdownOnce ==
    /\ [](/\ loop_calls.draw_frame = loop_calls.redraw_requested
          /\ loop_calls.draw_frame = frames + (IF pc = "Idle" THEN 0 ELSE 1)
          /\ loop_calls.shutdown = loop_calls.loop_destroyed
          /\ loop_calls.shutdown <= 1
          /\ loop_calls.shutdown = 1 => loop_calls.close_requested >= 1
          /\ loop_calls.shutdown = 1 <=> event_loop \in {"shutdown", "drop", "done"})
    /\ [][loop_calls.shutdown = 1 =>
              /\ loop_calls'.draw_frame = loop_calls.draw_frame
              /\ loop_calls'.shutdown = 1
              /\ pc' = "Idle"]_vars

\* C24 witness: two redraw requests of the window and one event of another
\* window were delivered, two frames were drawn, the close request came
\* twice and shutdown was called once.
C24_Witness ==
    /\ loop_calls.close_requested = 2
    /\ loop_calls.redraw_requested = 2
    /\ loop_calls.draw_frame = 2
    /\ loop_calls.ignored >= 1
    /\ frames = 2
    /\ loop_calls.shutdown = 1
    /\ event_loop = "done"

\* In the calls a builder made: the pipeline is created, then each shader
\* module is destroyed exactly once, and nothing comes between.
ModulesReleasedAfterPipeline(events) ==
    \E p \in 1..Len(events) :
        /\ events[p] = Create("pipeline", 1)
        /\ \A m \in 1..2 :
              /\ \E c \in 1..(p - 1) : events[c] = Create("shader_module", m)
              /\ Cardinality({k \in 1..Len(events) :
                                  events[k] = Destroy("shader_module", m)}) = 1
              /\ \A k \in 1..Len(events) :
                    events[k] = Destroy("shader_module", m) => k \in {p + 1, p + 2}

\* C25: a Pipeline Builder that returns has destroyed both shader modules
\* after the pipeline creation and before it returned, each exactly once:
\* no module outlives the builder call.
C25_ModulesDestroyedBeforeBuilderReturns ==
    /\ graphics_pipeline.state = "created" => ModulesReleasedAfterPipeline(trace)
    /\ create_graphics_pipeline_run.state = "created" =>
           ModulesReleasedAfterPipeline(create_graphics_pipeline_run.events)

\* C25 witness: both builders returned and framebuffers were made from the
\* render pass afterwards.
C25_Witness ==
    /\ graphics_pipeline.state = "created"
    /\ create_graphics_pipeline_run.state = "created"
    /\ swap_chain.framebuffers # <<>>
    /\ \E k \in 1..Len(trace) :
          /\ trace[k] = Destroy("shader_module", 1)
          /\ trace[k - 1] = Destroy("shader_module", 2)

Within(extent, capabilities) ==
    /\ capabilities.min_image_extent.width <= extent.width
    /\ extent.width <= capabilities.max_image_extent.width
    /\ capabilities.min_image_extent.height <= extent.height
    /\ extent.height <= capabilities.max_image_extent.height

\* C26 as stated: for every snapshot and window size the chosen extent lies
\* component-wise within [min_image_extent, max_image_extent], and extent
\* selection never aborts.
C26_ExtentWithinBounds ==
    /\ swap_chain.state = "panicked" => swap_chain.at # "choose_swap_extent"
    /\ create_swap_chain_run.state = "panicked"
           => create_swap_chain_run.at # "choose_swap_extend"
    /\ NewBuilt => /\ Within(swap_chain.extent, snapshot.capabilities)
                   /\ Within(swap_chain.create_info.image_extent, snapshot.capabilities)
    /\ OldBuilt => /\ Within(create_swap_chain_run.extent, snapshot.capabilities)
                   /\ Within(create_swap_chain_run.create_info.image_extent,
                             snapshot.capabilities)
    /\ \A size \in WindowSizes :
          /\ ~choose_swap_extent_panics(snapshot.capabilities)
          /\ Within(choose_swap_extent(snapshot.capabilities, size), snapshot.capabilities)
          /\ Within(choose_swap_extend(snapshot.capabilities, size), snapshot.capabilities)

\* C26 amended: when the surface reports the sentinel, extent selection
\* aborts if and only if min_image_extent exceeds max_image_extent in a
\* component, and otherwise the chosen extent lies component-wise within
\* [min_image_extent, max_image_extent]; when the surface reports a fixed
\* current extent, that extent is chosen as it is, whatever the bounds, and
\* extent selection does not abort.
C26_ExtentWithinBoundsUnderSentinel ==
    LET capabilities == snapshot.capabilities
        SentinelReported(c) == c.current_extent.width = U32_MAX
        BoundsOutOfOrder(c) ==
            \/ c.min_image_extent.width > c.max_image_extent.width
            \/ c.min_image_extent.height > c.max_image_extent.height
        aborts == SentinelReported(capabilities) /\ BoundsOutOfOrder(capabilities)
    IN  /\ swap_chain.state = "panicked" /\ swap_chain.at = "choose_swap_extent" => aborts
        /\ create_swap_chain_run.state = "panicked"
               /\ create_swap_chain_run.at = "choose_swap_extend" => aborts
        /\ aborts => ~NewBuilt /\ ~OldBuilt
        /\ NewBuilt =>
               /\ swap_chain.create_info.image_extent = swap_chain.extent
               /\ IF SentinelReported(capabilities)
                  THEN Within(swap_chain.extent, capabilities)
                  ELSE swap_chain.extent = capabilities.current_extent
        /\ OldBuilt =>
               /\ create_swap_chain_run.create_info.image_extent = create_swap_chain_run.extent
               /\ IF SentinelReported(capabilities)
                  THEN Within(create_swap_chain_run.extent, capabilities)
                  ELSE create_swap_chain_run.extent = capabilities.current_extent
        /\ choose_swap_extent_panics(capabilities) <=> aborts
        /\ ~aborts =>
               \A size \in WindowSizes :
                   IF SentinelReported(capabilities)
                   THEN /\ Within(choose_swap_extent(capabilities, size), capabilities)
                        /\ Within(choose_swap_extend(capabilities, size), capabilities)
                   ELSE /\ choose_swap_extent(capabilities, size) = capabilities.current_extent
                        /\ choose_swap_extend(capabilities, size) = capabilities.current_extent

\* C26 witness: the sentinel is reported, the window has no pixels, and both
\* chains took the minimum extent.
C26_Witness ==
    /\ NewBuilt /\ OldBuilt
    /\ snapshot.capabilities.current_extent.width = U32_MAX
    /\ snapshot.inner_size = Extent2D(0, 0)
    /\ snapshot.capabilities.min_image_extent.height > 1
    /\ swap_chain.extent = snapshot.capabilities.min_image_extent
    /\ create_swap_chain_run.extent = snapshot.capabilities.min_image_extent

\* C27: with the configured tables, utils::pick_most_suitable_physical_device
\* and PhysicalDevice::pick either both abort or both select the same
\* adapter.
C27_SelectorsAgree ==
    /\ optional_extensions = <<>>
    /\ ratings = <<>>
    /\ utils_run.state # "pending"
    /\ pick_run.state # "pending"
    => /\ utils_run.state = pick_run.state
       /\ utils_run.selected = pick_run.selected

NoRepeat(seq) == \A i, j \in 1..Len(seq) : seq[i] = seq[j] => i = j

\* C28: get_unique_indices never returns the same index twice: one index
\* when the graphics and the presentation family coincide, two when they
\* differ; the device is created with one queue create-info per returned
\* index.
C28_UniqueIndicesAndCreateInfos ==
    /\ device.state # "none" =>
          /\ NoRepeat(device.unique_queue_families)
          /\ Len(device.unique_queue_families)
                 = (IF GraphicsFamilyIndex = PresentFamilyIndex THEN 1 ELSE 2)
          /\ {device.unique_queue_families[i] : i \in 1..Len(device.unique_queue_families)}
                 = {GraphicsFamilyIndex, PresentFamilyIndex}
          /\ Len(device.queue_create_infos) = Len(device.unique_queue_families)
          /\ \A i \in 1..Len(device.queue_create_infos) :
                device.queue_create_infos[i].queue_family_index
                    = device.unique_queue_families[i]
    /\ create_logical_device_run.state # "none" =>
          /\ NoRepeat(create_logical_device_run.unique_indices)
          /\ Len(create_logical_device_run.unique_indices)
                 = (IF GraphicsFamilyIndex = PresentFamilyIndex THEN 1 ELSE 2)
          /\ {create_logical_device_run.unique_indices[i] :
                  i \in 1..Len(create_logical_device_run.unique_indices)}
                 = {GraphicsFamilyIndex, PresentFamilyIndex}
          /\ Len(create_logical_device_run.create_infos)
                 = Len(create_logical_device_run.unique_indices)
          /\ \A i \in 1..Len(create_logical_device_run.create_infos) :
                create_logical_device_run.create_infos[i].queue_family_index
                    = create_logical_device_run.unique_indices[i]

\* C28 witness: the only family does graphics and presentation, and each
\* revision made one create-info for it.
C28_Witness ==
    /\ device.state = "created"
    /\ create_logical_device_run.state = "created"
    /\ Len(snapshot.queue_family_properties) = 1
    /\ GraphicsFamilyIndex = PresentFamilyIndex
    /\ Len(device.queue_create_infos) = 1
    /\ Len(create_logical_device_run.create_infos) = 1

\* C29: for every packed 32-bit version v (3-bit variant, 7-bit major,
\* 10-bit minor, 12-bit patch), converting v to an ApiVersion and back
\* returns v.
C29_VersionRoundTrip ==
    instance.state # "none" /\ is_some(instance_version) =>
        u32_from(instance.version) = unwrap(instance_version)

\* C30: for every pair of versions a, b: a.partial_cmp(b) is Some(a.cmp(b)),
\* and cmp gives Equal exactly when a == b; so `version < required` decides
\* as cmp does.
C30_PartialCmpAgreesWithCmp ==
    instance.state # "none" =>
        /\ partial_cmp(instance.version, INSTANCE_API_VERSION)
               = Some(cmp(instance.version, INSTANCE_API_VERSION))
        /\ cmp(instance.version, INSTANCE_API_VERSION) = "Equal"
               <=> eq(instance.version, INSTANCE_API_VERSION)
        /\ lt(instance.version, INSTANCE_API_VERSION)
               <=> cmp(instance.version, INSTANCE_API_VERSION) = "Less"
        /\ instance.state = "panicked"
               <=> cmp(instance.version, INSTANCE_API_VERSION) = "Less"

====
